---- MODULE Spec2Model ----
(***************************************************************************)
(* Model of agent-exec: one job, its run front-end, its supervisor (main   *)
(* thread, two tee workers, watcher), the child, and kill invocations,     *)
(* all coordinating through the files of the job directory.                *)
(***************************************************************************)
EXTENDS Integers, Sequences, FiniteSets, TLC

VARIABLES
    opts,     \* options of the run invocation and the platform
    files,    \* names of the files that exist in the job directory (state.json apart)
    state,    \* state.json: whether it exists and the document it holds
    fe,       \* run front-end: position and locals
    sv,       \* supervisor main thread: position and locals
    wt,       \* watcher thread: position and locals
    tee,      \* the two tee workers' positions
    child,    \* the child process
    kl,       \* the current kill invocation
    now,      \* wall clock read for timestamps
    io,       \* the file system under one target of write_atomic, byte level
    cl,       \* a client command in progress: status, tail, wait, list, run's polling
    pf,       \* arguments and results of the function a specification applies
    logs      \* bytes of the command's output in stdout.log

vars == <<opts, files, state, fe, sv, wt, tee, child, kl, now, io, cl, pf, logs>>
jobVars == <<opts, files, state, fe, sv, wt, tee, child, kl, now, cl, pf, logs>>

----------------------------------------------------------------------------
\* Bounds of the model.
MaxTimeout == 1
MaxKillAfter == 1
HandshakeTicks == 1
MaxDocs == 2
MaxWaitTimeout == 3
MaxPoll == 2
ShortSnapshot == 40
MaxWaitPoll == 2
WaitedCap == 3
MaxOutput == 1
MaxEnv == 2
MaxEntryLen == 3
MaxMask == 1
MaxFileLen == 3
MaxTailLines == 2
MaxEntries == 2
MaxNow == 2
MaxFileLines == 1
MaxEnvFiles == 2

\* No client command, no function under study.
\* cmd: the sub-command.  deadline: wait's, on its own clock, which starts
\* at 0 when wait starts.  err: the error execute returned.  out: the
\* lines written to stdout.  code: the exit status of the process.
NoClient == [cmd |-> "none", pc |-> "idle", timeout_ms |-> 0, poll_ms |-> 0,
             deadline |-> {}, clock |-> 0, err |-> {}, out |-> <<>>, code |-> {}]
NoWork == [fn |-> "none"]

\* Option<T>: None is the empty set, Some(x) the singleton.
None == {}
Some(x) == {x}
IsSome(o) == o # {}
Unwrap(o) == CHOOSE x \in o : TRUE

----------------------------------------------------------------------------
\* schema.rs

SupPid == "supervisor_pid"
ChildPid == "child_pid"
JobId == "JOB"
CreatedAt == 0
ExitCodes == {0, 1}

JobStatus == {"running", "exited", "killed", "failed"}

\* The Job Object name AgentExec-<job_id>.
JobObjectName == <<"AgentExec-", JobId>>

\* JobState { job: {id, status, started_at}, result: {exit_code, signal,
\* duration_ms}, pid, finished_at, updated_at, windows_job_name }
JobState(status, exit_code, signal, duration_ms, pid, finished_at, updated_at, wjn) ==
    [id |-> JobId, status |-> status, started_at |-> CreatedAt,
     exit_code |-> exit_code, signal |-> signal, duration_ms |-> duration_ms,
     pid |-> pid, finished_at |-> finished_at, updated_at |-> updated_at,
     windows_job_name |-> wjn]

----------------------------------------------------------------------------
\* The file state.json: absent, present without a parsable document
\* (truncated or partly written), or present with a whole document.
\* wfd: the watcher holds this very file open for writing (std::fs::write
\* opened and truncated it); a rename puts a new file under the name.
Absent == [present |-> FALSE, doc |-> None, wfd |-> FALSE]
Truncated == [present |-> TRUE, doc |-> None, wfd |-> TRUE]
Whole(d) == [present |-> TRUE, doc |-> Some(d), wfd |-> FALSE]

\* JobDir::read_state: Ok(document) or Err.
read_state == state.doc
ReadOk == IsSome(state.doc)
StatusNow == IF ReadOk THEN Unwrap(state.doc).status ELSE "none"

\* JobDir::write_state: the rename of write_atomic replaces the file.
write_state(d) == Whole(d)

\* JobDir::init_state
init_state_doc(pid, windows) ==
    JobState("running", None, None, None, Some(pid), None, now,
             IF windows THEN Some(JobObjectName) ELSE None)

LogFiles == {"stdout.log", "stderr.log", "full.log"}

----------------------------------------------------------------------------
\* Signal names are strings of ASCII code points, so that upper-casing is
\* computed, not assumed.
TERM == <<84, 69, 82, 77>>
INT == <<73, 78, 84>>
KILL == <<75, 73, 76, 76>>
\* What --signal carries here: "term", "Kill".
SignalArgs == {<<116, 101, 114, 109>>, <<75, 105, 108, 108>>}

\* char::to_ascii_uppercase on one code point.
UpperChar(c) == IF c >= 97 /\ c <= 122 THEN c - 32 ELSE c
\* str::to_uppercase
to_uppercase(s) == [i \in 1..Len(s) |-> UpperChar(s[i])]

\* send_signal: TERM|INT|KILL, anything else is KILL.
Signum(signal) ==
    IF signal = TERM THEN "SIGTERM"
    ELSE IF signal = INT THEN "SIGINT"
    ELSE "SIGKILL"

SCHEMA_VERSION == "0.1"

\* Response::new("kill", KillData {job_id, signal})
KillResponse(signal_upper) ==
    [schema_version |-> SCHEMA_VERSION, ok |-> TRUE, type |-> "kill",
     job_id |-> JobId, signal |-> signal_upper]
\* ErrorResponse::new(code, message, false)
ErrorResponse(code) ==
    [schema_version |-> SCHEMA_VERSION, ok |-> FALSE, type |-> "error",
     code |-> code, retryable |-> FALSE]
\* Response::new("run", RunData {job_id, state, ...})
RunResponse ==
    [schema_version |-> SCHEMA_VERSION, ok |-> TRUE, type |-> "run",
     job_id |-> JobId, state |-> "running"]
\* Response::new("status", StatusData {..}) for the document d read
StatusResponse(d) ==
    [schema_version |-> SCHEMA_VERSION, ok |-> TRUE, type |-> "status",
     job_id |-> JobId, state |-> d.status, exit_code |-> d.exit_code,
     started_at |-> CreatedAt, finished_at |-> d.finished_at]
\* Response::new("wait", WaitData {job_id, state, exit_code})
WaitResponse(st, exit_code) ==
    [schema_version |-> SCHEMA_VERSION, ok |-> TRUE, type |-> "wait",
     job_id |-> JobId, state |-> st, exit_code |-> exit_code]
\* Response::new("tail", TailData {..}); the tails themselves are not modelled
TailResponse ==
    [schema_version |-> SCHEMA_VERSION, ok |-> TRUE, type |-> "tail", job_id |-> JobId]
\* Response::new("list", ListData {jobs, skipped, ..}); jobs: the states listed
ListResponse(jobs, skipped) ==
    [schema_version |-> SCHEMA_VERSION, ok |-> TRUE, type |-> "list",
     jobs |-> jobs, skipped |-> skipped]

----------------------------------------------------------------------------
\* The child process.  st: none | running | zombie (terminated, not yet
\* waited for) | reaped.  exit: ExitStatus::code(), None when a signal
\* ended it.  cause: what ended it.  heirs: descendants of the command
\* live and hold the write ends of its stdout and stderr pipes.
ChildInit == [st |-> "none", exit |-> None, cause |-> "none", heirs |-> FALSE]

\* The effect on the child of signal signum sent to its pid by `by`; a
\* SIGTERM or SIGINT may be caught or ignored by the command (dies = FALSE).
Deliver(c, signum, cause, dies) ==
    IF c.st = "running" /\ (signum = "SIGKILL" \/ dies)
    THEN [st |-> "zombie", exit |-> None, cause |-> cause, heirs |-> c.heirs]
    ELSE c

----------------------------------------------------------------------------
\* jobstore.rs at the level of files: names, inodes and bytes.  A
\* document is serialized to three chunks; a file parses when it holds all
\* three.  Two writers call write_state over and over while a reader reads.

Docs == 1..MaxDocs
Writers == {"w1", "w2"}
Target == "state.json"
Inodes == 1..(2 + Cardinality(Writers))
NoInode == 0

\* serde_json::to_string_pretty
Serialize(d) == <<"{", d, "}">>
\* serde_json::from_slice: Ok(document) only for a whole document
Parse(c) == IF Len(c) = 3 THEN Some(c[2]) ELSE None

\* Variant: the document written straight into the target.
TmpDirect(w) == Target

\* tempfile::Builder::new().prefix(".tmp-").tempfile_in(dir): a fresh name
\* in the job directory, one per call.
TmpName(w) == IF w = "w1" THEN ".tmp-w1" ELSE ".tmp-w2"

Names == {Target} \cup {TmpName(w) : w \in Writers}

WriterIdle == [pc |-> "idle", doc |-> 0, fd |-> NoInode, off |-> 0]
ReaderIdle == [pc |-> "idle", fd |-> NoInode, got |-> None, span |-> {}, quiet |-> TRUE]

\* The store after init_state: the target holds a whole document.
IoInit ==
    [dir |-> [n \in Names |-> IF n = Target THEN 1 ELSE NoInode],
     data |-> [i \in Inodes |-> IF i = 1 THEN Serialize(1) ELSE <<>>],
     w |-> [x \in Writers |-> WriterIdle],
     r |-> ReaderIdle,
     last |-> 1]

\* Inodes in use: linked under a name or held open.
Used(dir, w, r) ==
    {dir[n] : n \in Names} \cup {w[x].fd : x \in Writers} \cup {r.fd}
FreeInode == CHOOSE i \in Inodes : i \notin Used(io.dir, io.w, io.r)
\* An inode nobody links or holds is gone, its bytes with it.
Reclaim(data, dir, w, r) ==
    [i \in Inodes |-> IF i \in Used(dir, w, r) THEN data[i] ELSE <<>>]

\* write_atomic: the temp file is created (an existing file of that name is
\* opened and truncated)
WaTempfile(x, d) ==
    /\ io.w[x].pc = "idle"
    /\ LET name == TmpName(x)
           old == io.dir[name]
           fd == IF old # NoInode THEN old ELSE FreeInode
           dir2 == [io.dir EXCEPT ![name] = fd]
           w2 == [io.w EXCEPT ![x] = [pc |-> "write", doc |-> d, fd |-> fd, off |-> 0]]
           r2 == [io.r EXCEPT !.quiet = FALSE]
       IN  io' = [io EXCEPT !.dir = dir2, !.w = w2, !.r = r2,
                            !.data = [io.data EXCEPT ![fd] = <<>>]]
    /\ UNCHANGED jobVars

\* write_atomic: tmp.write_all(contents), one chunk per write(2)
WaWriteAll(x) ==
    /\ io.w[x].pc = "write"
    /\ LET me == io.w[x]
           c == Serialize(me.doc)
       IN  io' = [io EXCEPT !.data[me.fd] = Append(@, c[me.off + 1]),
                            !.w[x].off = me.off + 1,
                            !.w[x].pc = IF me.off + 1 = Len(c) THEN "persist" ELSE "write"]
    /\ UNCHANGED jobVars

\* write_atomic: tmp.persist(target), a rename
WaPersist(x) ==
    /\ io.w[x].pc = "persist"
    /\ LET me == io.w[x]
           name == TmpName(x)
           dir2 == [n \in Names |-> IF n = Target THEN io.dir[name]
                                    ELSE IF n = name THEN NoInode ELSE io.dir[n]]
           w2 == [io.w EXCEPT ![x] = WriterIdle]
           r2 == IF io.r.pc = "opened"
                 THEN [io.r EXCEPT !.span = @ \cup {me.doc}] ELSE io.r
       IN  io' = [io EXCEPT !.dir = dir2, !.w = w2, !.r = r2, !.last = me.doc,
                            !.data = Reclaim(io.data, dir2, w2, r2)]
    /\ UNCHANGED jobVars

\* read_state: std::fs::read opens the target ...
RdOpen ==
    /\ io.r.pc = "idle"
    /\ io.dir[Target] # NoInode
    /\ io' = [io EXCEPT !.r = [pc |-> "opened", fd |-> io.dir[Target], got |-> None,
                               span |-> Parse(io.data[io.dir[Target]]),
                               quiet |-> \A x \in Writers : io.w[x].pc = "idle"]]
    /\ UNCHANGED jobVars

\* ... reads it to the end, and serde_json::from_slice parses the bytes
RdRead ==
    /\ io.r.pc = "opened"
    /\ LET r2 == [io.r EXCEPT !.pc = "done", !.fd = NoInode, !.got = Parse(io.data[io.r.fd])]
       IN  io' = [io EXCEPT !.r = r2, !.data = Reclaim(io.data, io.dir, io.w, r2)]
    /\ UNCHANGED jobVars

\* The reader returns; another read may follow.
RdReturn ==
    /\ io.r.pc = "done"
    /\ io' = [io EXCEPT !.r = ReaderIdle]
    /\ UNCHANGED jobVars

----------------------------------------------------------------------------
Streams == {"STDOUT", "STDERR"}
StreamLog(t) == IF t = "STDOUT" THEN "stdout.log" ELSE "stderr.log"

FeInit == [pc |-> "mkdir", left |-> 0, out |-> None]
SvInit == [pc |-> "idle", child_done |-> FALSE, exit |-> None, t0 |-> 0, wjn |-> None]
WtInit == [pc |-> "none", timeoutLeft |-> 0, sleepLeft |-> 0, st |-> None,
           term_sent |-> FALSE, kill_sent |-> FALSE]

Init ==
    /\ opts \in [timeout_ms : {0, MaxTimeout}, kill_after_ms : {0, MaxKillAfter},
                 progress_every_ms : {0, 100}, windows : BOOLEAN]
    /\ opts.timeout_ms = 0 => opts.kill_after_ms = 0  \* kill_after is read on timeout only
    /\ files = {}
    /\ state = Absent
    /\ fe = FeInit
    /\ sv = SvInit
    /\ wt = WtInit
    /\ tee = [t \in Streams |-> "none"]
    /\ child = ChildInit
    /\ kl = [pc |-> "idle", sig |-> TERM, pid |-> None, noop |-> FALSE,
             signalled |-> FALSE, wrote |-> FALSE, out |-> None, code |-> None]
    /\ now = 0
    /\ io = IoInit
    /\ cl = NoClient
    /\ pf = NoWork
    /\ logs = 0

----------------------------------------------------------------------------
\* run::execute, the front-end.  Its snapshot and --wait polling phases only
\* read state.json and are not part of this specification.

\* JobDir::create: create_dir_all
FeMkdir ==
    /\ fe.pc = "mkdir"
    /\ files' = files \cup {"."}
    /\ fe' = [fe EXCEPT !.pc = "meta"]
    /\ UNCHANGED <<opts, state, sv, wt, tee, child, kl, now, io, cl, pf, logs>>

\* Variant: JobDir::create only makes the directory, meta.json is left
\* to be written after the supervisor has been spawned.
FeWriteMetaLater ==
    /\ fe.pc = "meta"
    /\ files' = files
    /\ fe' = [fe EXCEPT !.pc = "logs"]
    /\ UNCHANGED <<opts, state, sv, wt, tee, child, kl, now, io, cl, pf, logs>>

\* JobDir::create: write_meta_atomic
FeWriteMeta ==
    /\ fe.pc = "meta"
    /\ files' = files \cup {"meta.json"}
    /\ fe' = [fe EXCEPT !.pc = "logs"]
    /\ UNCHANGED <<opts, state, sv, wt, tee, child, kl, now, io, cl, pf, logs>>

\* Variant: run leaves the per-stream logs to the supervisor's tee threads.
PreCreatedFullOnly == {"full.log"}

\* The log files run creates before it spawns the supervisor.
PreCreated == LogFiles

FePreCreateLogs ==
    /\ fe.pc = "logs"
    /\ files' = files \cup PreCreated
    /\ fe' = [fe EXCEPT !.pc = "spawn"]
    /\ UNCHANGED <<opts, state, sv, wt, tee, child, kl, now, io, cl, pf, logs>>

\* supervisor_cmd.spawn(): the supervisor starts, or spawn fails and run
\* reports the error.
FeSpawn ==
    /\ fe.pc = "spawn"
    /\ \/ /\ fe' = [fe EXCEPT !.pc = "init"]
          /\ sv' = [sv EXCEPT !.pc = "open"]
       \/ /\ fe' = [fe EXCEPT !.pc = "done", !.out = Some(ErrorResponse("internal_error"))]
          /\ sv' = sv
    /\ UNCHANGED <<opts, files, state, wt, tee, child, kl, now, io, cl, pf, logs>>

\* job_dir.init_state(supervisor_pid, &created_at)
FeInitState ==
    /\ fe.pc = "init"
    /\ state' = write_state(init_state_doc(SupPid, opts.windows))
    /\ fe' = [fe EXCEPT !.pc = IF opts.windows THEN "handshake" ELSE "print",
                        !.left = IF opts.windows THEN HandshakeTicks ELSE 0]
    /\ UNCHANGED <<opts, files, sv, wt, tee, child, kl, now, io, cl, pf, logs>>

\* One poll of the Windows handshake loop.
FeHandshake ==
    /\ fe.pc = "handshake"
    /\ LET updated == ReadOk /\ (Unwrap(state.doc).pid # Some(SupPid)
                                  \/ Unwrap(state.doc).status = "failed")
       IN  IF updated /\ Unwrap(state.doc).status = "failed"
           THEN fe' = [fe EXCEPT !.pc = "done", !.left = 0,
                                 !.out = Some(ErrorResponse("internal_error"))]
           ELSE IF updated \/ fe.left = 0
           THEN fe' = [fe EXCEPT !.pc = "print", !.left = 0]
           ELSE fe' = fe
    /\ UNCHANGED <<opts, files, state, sv, wt, tee, child, kl, now, io, cl, pf, logs>>

\* response.print()
FePrint ==
    /\ fe.pc = "print"
    /\ fe' = [fe EXCEPT !.pc = "done", !.out = Some(RunResponse)]
    /\ UNCHANGED <<opts, files, state, sv, wt, tee, child, kl, now, io, cl, pf, logs>>

----------------------------------------------------------------------------
\* run::supervise, the main thread.

\* A setup step that returns its error with `?`: the supervisor exits.
SetupError == [sv EXCEPT !.pc = "exit_err"]

\* JobDir::open and read_meta; create_dir_all(parent) and
\* File::create(full_log_path); load_env_file for each --env-file.  Each
\* may fail, and none is seen by another process before the next.
SvSetup ==
    /\ sv.pc = "open"
    /\ \/ /\ "meta.json" \in files
          /\ files' = files \cup {"full.log"}
          /\ sv' = [sv EXCEPT !.pc = "spawn"]
       \/ /\ files' = files      \* meta.json unreadable, or full.log cannot be created
          /\ sv' = SetupError
       \/ /\ "meta.json" \in files
          /\ files' = files \cup {"full.log"}     \* an env file cannot be read
          /\ sv' = SetupError
    /\ UNCHANGED <<opts, state, fe, wt, tee, child, kl, now, io, cl, pf, logs>>

\* child_cmd.spawn()
SvSpawnChild ==
    /\ sv.pc = "spawn"
    /\ \/ /\ sv' = [sv EXCEPT !.pc = IF opts.windows THEN "assign" ELSE "handshake"]
          /\ child' = [child EXCEPT !.st = "running"]
       \/ /\ sv' = SetupError
          /\ child' = child
    /\ UNCHANGED <<opts, files, state, fe, wt, tee, kl, now, io, cl, pf, logs>>

\* assign_to_job_object (Windows); on failure child.kill() and child.wait()
SvAssign ==
    /\ sv.pc = "assign"
    /\ \/ /\ sv' = [sv EXCEPT !.pc = "handshake", !.wjn = Some(JobObjectName)]
          /\ child' = child
       \/ /\ sv' = [sv EXCEPT !.pc = "assign_failed"]
          /\ child' = [child EXCEPT !.st = "reaped",
                          !.cause = IF child.st = "running" THEN "assign_failed" ELSE @]
    /\ UNCHANGED <<opts, files, state, fe, wt, tee, kl, now, io, cl, pf, logs>>

\* The state written when Job Object assignment failed.
failed_state == JobState("failed", None, None, None, Some(ChildPid), Some(now), now, None)

SvWriteFailed ==
    /\ sv.pc = "assign_failed"
    /\ state' = write_state(failed_state)
    /\ sv' = [sv EXCEPT !.pc = "exit_err"]
    /\ UNCHANGED <<opts, files, fe, wt, tee, child, kl, now, io, cl, pf, logs>>

\* The state written once the child runs: the child's pid replaces the supervisor's.
handshake_state == JobState("running", None, None, None, Some(ChildPid), None, now, sv.wjn)

SvWriteHandshake ==
    /\ sv.pc = "handshake"
    /\ state' = write_state(handshake_state)
    /\ sv' = [sv EXCEPT !.pc = "threads", !.t0 = now]
    /\ UNCHANGED <<opts, files, fe, wt, tee, child, kl, now, io, cl, pf, logs>>

\* Whether supervise starts a watcher thread.
HasWatcher == opts.timeout_ms > 0 \/ opts.progress_every_ms > 0

\* The tee threads and the watcher are spawned; each tee thread begins
\* with File::create(log_path).
SvSpawnThreads ==
    /\ sv.pc = "threads"
    /\ tee' = [t \in Streams |-> "read"]
    /\ files' = files \cup {StreamLog(t) : t \in Streams}
    /\ wt' = IF HasWatcher
             THEN [wt EXCEPT !.pc = "poll", !.timeoutLeft = opts.timeout_ms]
             ELSE wt
    /\ sv' = [sv EXCEPT !.pc = "wait"]
    /\ UNCHANGED <<opts, state, fe, child, kl, now, io, cl, pf, logs>>

\* child.wait() returns once the child has terminated, and reaps it.
SvWait ==
    /\ sv.pc = "wait"
    /\ child.st = "zombie"
    /\ child' = [child EXCEPT !.st = "reaped"]
    /\ sv' = [sv EXCEPT !.pc = "flag", !.exit = child.exit]
    /\ UNCHANGED <<opts, files, state, fe, wt, tee, kl, now, io, cl, pf, logs>>

\* child_done.store(true)
SvSetFlag ==
    /\ sv.pc = "flag"
    /\ sv' = [sv EXCEPT !.pc = "join", !.child_done = TRUE]
    /\ UNCHANGED <<opts, files, state, fe, wt, tee, child, kl, now, io, cl, pf, logs>>

\* Variant: only the watcher is joined, the tee threads are left running.
SvJoinWatcher ==
    /\ sv.pc = "join"
    /\ wt.pc \in {"none", "done"}
    /\ sv' = [sv EXCEPT !.pc = "final"]
    /\ UNCHANGED <<opts, files, state, fe, wt, tee, child, kl, now, io, cl, pf, logs>>

\* t_stdout.join(), t_stderr.join(), watcher.join()
SvJoin ==
    /\ sv.pc = "join"
    /\ \A t \in Streams : tee[t] = "done"
    /\ wt.pc \in {"none", "done"}
    /\ sv' = [sv EXCEPT !.pc = "final"]
    /\ UNCHANGED <<opts, files, state, fe, wt, tee, child, kl, now, io, cl, pf, logs>>

\* Variant: a non-zero exit code reported as failed.
TerminalStatusByCode(exit_code) == IF exit_code = Some(0) THEN "exited" ELSE "failed"

\* JobStatus of the supervisor's terminal state for an ExitStatus::code().
TerminalStatus(exit_code) == "exited"

\* Variant: the terminal state without finished_at.
terminal_state_unfinished ==
    JobState(TerminalStatus(sv.exit), sv.exit, None, Some(now - sv.t0),
             Some(ChildPid), None, now, None)

\* The terminal state the supervisor writes.
terminal_state ==
    JobState(TerminalStatus(sv.exit), sv.exit, None, Some(now - sv.t0),
             Some(ChildPid), Some(now), now, None)

SvWriteTerminal ==
    /\ sv.pc = "final"
    /\ state' = write_state(terminal_state)
    /\ sv' = [sv EXCEPT !.pc = "done"]
    /\ UNCHANGED <<opts, files, fe, wt, tee, child, kl, now, io, cl, pf, logs>>

----------------------------------------------------------------------------
\* stream_to_logs, one per stream.

\* stream.read returns Ok(0) once every write end of the pipe is closed:
\* the child's and those its descendants inherited.
TeeEof(t) ==
    /\ tee[t] = "read"
    /\ child.st \in {"zombie", "reaped"}
    /\ ~child.heirs
    /\ tee' = [tee EXCEPT ![t] = "done"]
    /\ UNCHANGED <<opts, files, state, fe, sv, wt, child, kl, now, io, cl, pf, logs>>

----------------------------------------------------------------------------
\* The command: it may end by itself with any exit code, at any time.
\* (An orphan is reaped by init at once.)
ChildExit(c) ==
    /\ child.st = "running"
    /\ child' = [st |-> IF sv.pc = "killed" THEN "reaped" ELSE "zombie",
                 exit |-> Some(c), cause |-> "natural", heirs |-> child.heirs]
    /\ UNCHANGED <<opts, files, state, fe, sv, wt, tee, kl, now, io, cl, pf, logs>>

\* The command starts a descendant that inherits its stdout and stderr
\* (sh -c 'sleep 600 &') ...
ChildFork ==
    /\ child.st = "running"
    /\ ~child.heirs
    /\ child' = [child EXCEPT !.heirs = TRUE]
    /\ UNCHANGED <<opts, files, state, fe, sv, wt, tee, kl, now, io, cl, pf, logs>>

\* ... and the last such descendant ends.
HeirsExit ==
    /\ child.heirs
    /\ child' = [child EXCEPT !.heirs = FALSE]
    /\ UNCHANGED <<opts, files, state, fe, sv, wt, tee, kl, now, io, cl, pf, logs>>

----------------------------------------------------------------------------
\* The watcher thread of supervise.

\* The signals of the timeout branch are compiled for unix only.
WatcherSignals == ~opts.windows

\* One turn of the loop after its sleep: the flag, then the timeout, then
\* the progress condition (elapsed % progress_every < poll interval, which
\* depends on when the poll happens to run: either outcome).
WtPoll ==
    /\ wt.pc = "poll"
    /\ IF sv.child_done
       THEN wt' = [wt EXCEPT !.pc = "done"]
       ELSE IF opts.timeout_ms > 0 /\ wt.timeoutLeft = 0
       THEN wt' = [wt EXCEPT !.pc = "term"]
       ELSE IF opts.progress_every_ms > 0
       THEN \E due \in BOOLEAN :
                wt' = [wt EXCEPT !.pc = IF due THEN "prog_read" ELSE "poll"]
       ELSE wt' = wt
    /\ UNCHANGED <<opts, files, state, fe, sv, tee, child, kl, now, io, cl, pf, logs>>

\* A signal to the child's pid: it reaches the child while the pid is the
\* child's; once the child is reaped the pid is free (stray).
WatcherSend(signum, dies) ==
    child' = Deliver(child, signum, "watcher", dies)

\* libc::kill(pid, SIGTERM), then the kill_after sleep starts
WtTerm ==
    /\ wt.pc = "term"
    /\ IF WatcherSignals
       THEN /\ \E dies \in BOOLEAN : WatcherSend("SIGTERM", dies)
            /\ wt' = [wt EXCEPT !.pc = "kill", !.term_sent = TRUE,
                                 !.sleepLeft = opts.kill_after_ms]
       ELSE /\ wt' = [wt EXCEPT !.pc = "kill", !.sleepLeft = opts.kill_after_ms]
            /\ UNCHANGED <<child>>
    /\ UNCHANGED <<opts, files, state, fe, sv, tee, kl, now, io, cl, pf, logs>>

\* Whether the kill_after sleep is over.
KillAfterOver == wt.sleepLeft = 0

\* libc::kill(pid, SIGKILL) after the sleep (none when kill_after = 0); break
WtKill ==
    /\ wt.pc = "kill"
    /\ KillAfterOver
    /\ IF WatcherSignals
       THEN /\ WatcherSend("SIGKILL", TRUE)
            /\ wt' = [wt EXCEPT !.pc = "done", !.kill_sent = TRUE]
       ELSE /\ wt' = [wt EXCEPT !.pc = "done"]
            /\ UNCHANGED <<child>>
    /\ UNCHANGED <<opts, files, state, fe, sv, tee, kl, now, io, cl, pf, logs>>

\* Progress: std::fs::read and serde_json::from_slice, st.updated_at = now
WtProgRead ==
    /\ wt.pc = "prog_read"
    /\ IF ReadOk
       THEN wt' = [wt EXCEPT !.pc = "prog_trunc",
                             !.st = Some([Unwrap(state.doc) EXCEPT !.updated_at = now])]
       ELSE wt' = [wt EXCEPT !.pc = "poll"]
    /\ UNCHANGED <<opts, files, state, fe, sv, tee, child, kl, now, io, cl, pf, logs>>

\* Progress: std::fs::write opens state.json truncating it ...
WtProgTruncate ==
    /\ wt.pc = "prog_trunc"
    /\ state' = Truncated
    /\ wt' = [wt EXCEPT !.pc = "prog_write"]
    /\ UNCHANGED <<opts, files, fe, sv, tee, child, kl, now, io, cl, pf, logs>>

\* ... and writes the document into the file it opened (which is no longer
\* state.json if a rename replaced it meanwhile).
WtProgWrite ==
    /\ wt.pc = "prog_write"
    /\ state' = IF state.wfd THEN Whole(Unwrap(wt.st)) ELSE state
    /\ wt' = [wt EXCEPT !.pc = "poll", !.st = None]
    /\ UNCHANGED <<opts, files, fe, sv, tee, child, kl, now, io, cl, pf, logs>>

----------------------------------------------------------------------------
\* kill::execute.  Invocations follow one another, any number of them.
\* pid: the pid of the document read.  signalled, wrote: what this
\* invocation has done.  out: the envelope it printed.  code: its exit
\* status.

SvRunning == sv.pc \notin {"idle", "done", "exit_err", "killed"}

KlIdle == [pc |-> "idle", sig |-> TERM, pid |-> None, noop |-> FALSE,
           signalled |-> FALSE, wrote |-> FALSE, out |-> None, code |-> None]

KillInvoke(s) ==
    /\ kl.pc = "idle"
    /\ kl' = [KlIdle EXCEPT !.pc = "read", !.sig = s]
    /\ UNCHANGED <<opts, files, state, fe, sv, wt, tee, child, now, io, cl, pf, logs>>

\* main: the error of execute printed as an envelope, and exit(1)
KillFail(code) ==
    [kl EXCEPT !.pc = "exit", !.out = Some(ErrorResponse(code)), !.code = Some(1)]

\* Variant: kill without the status check.
KillBranchNoCheck(d) == IF IsSome(d.pid) THEN "signal" ELSE "print"

\* What kill does after read_state returned document d: "noop" (print the
\* response and return), "signal", or "print" (running without a pid).
KillBranch(d) ==
    IF d.status # "running" THEN "noop"
    ELSE IF IsSome(d.pid) THEN "signal"
    ELSE "print"

\* JobDir::open (JobNotFound when the directory does not exist), read_state
\* and the branch on the status
KillRead ==
    /\ kl.pc = "read"
    /\ IF "." \notin files
       THEN kl' = KillFail("job_not_found")
       ELSE IF ~ReadOk
       THEN kl' = KillFail("internal_error")
       ELSE LET d == Unwrap(read_state)
                b == KillBranch(d)
            IN  IF b = "noop"
                THEN kl' = [kl EXCEPT !.pc = "exit", !.noop = TRUE, !.code = Some(0),
                                      !.out = Some(KillResponse(to_uppercase(kl.sig)))]
                ELSE kl' = [kl EXCEPT !.pc = b, !.pid = d.pid]
    /\ UNCHANGED <<opts, files, state, fe, sv, wt, tee, child, now, io, cl, pf, logs>>

\* send_signal(pid, &signal_upper) returned Ok: the process with that pid
\* got the signal, or there is none (ESRCH).  On Windows every signal
\* terminates the target, and its descendants when kill falls back to
\* terminate_process_tree.  The supervisor handles no signal: any ends it,
\* its threads with it, and a child that lives on is left to init.
KillSignalOk ==
    /\ kl.pc = "signal"
    /\ LET pid == Unwrap(kl.pid)
           signum == IF opts.windows THEN "SIGKILL" ELSE Signum(to_uppercase(kl.sig))
       IN  \/ /\ pid = ChildPid
              /\ \E dies \in BOOLEAN : child' = Deliver(child, signum, "kill", dies)
              /\ UNCHANGED <<sv, wt, tee>>
           \/ /\ pid = SupPid
              /\ SvRunning
              /\ sv' = [sv EXCEPT !.pc = "killed"]
              /\ wt' = IF wt.pc \in {"none", "done"} THEN wt ELSE [wt EXCEPT !.pc = "dead"]
              /\ tee' = [t \in Streams |-> IF tee[t] \in {"none", "done"} THEN tee[t] ELSE "dead"]
              /\ \E tree \in {FALSE, opts.windows} :
                    child' = IF child.st = "zombie" THEN [child EXCEPT !.st = "reaped"]
                             ELSE IF tree /\ child.st = "running"
                             THEN [st |-> "reaped", exit |-> None, cause |-> "kill",
                                   heirs |-> FALSE]
                             ELSE child
           \/ /\ pid = SupPid
              /\ ~SvRunning
              /\ UNCHANGED <<sv, wt, tee, child>>
    /\ kl' = [kl EXCEPT !.pc = "write", !.signalled = TRUE]
    /\ UNCHANGED <<opts, files, state, fe, now, io, cl, pf, logs>>

\* send_signal returned Err (the pid is gone or is another process's:
\* EPERM, OpenProcess failure): execute returns the error.
KillSignalErr ==
    /\ kl.pc = "signal"
    /\ LET pid == Unwrap(kl.pid)
       IN  \/ pid = ChildPid /\ child.st = "reaped"
           \/ pid = SupPid /\ ~SvRunning
    /\ kl' = KillFail("internal_error")
    /\ UNCHANGED <<opts, files, state, fe, sv, wt, tee, child, now, io, cl, pf, logs>>

\* Variant: the signal name stored as given, not upper-cased.
killed_state_raw ==
    JobState("killed", None, Some(kl.sig), None, kl.pid, Some(now), now, None)

\* The state kill writes after signalling.
killed_state ==
    JobState("killed", None, Some(to_uppercase(kl.sig)), None,
             kl.pid, Some(now), now, None)

\* job_dir.write_state(&new_state)
KillWrite ==
    /\ kl.pc = "write"
    /\ state' = write_state(killed_state)
    /\ kl' = [kl EXCEPT !.pc = "print", !.wrote = TRUE]
    /\ UNCHANGED <<opts, files, fe, sv, wt, tee, child, now, io, cl, pf, logs>>

\* response.print()
KillPrint ==
    /\ kl.pc = "print"
    /\ kl' = [kl EXCEPT !.pc = "exit", !.code = Some(0),
                         !.out = Some(KillResponse(to_uppercase(kl.sig)))]
    /\ UNCHANGED <<opts, files, state, fe, sv, wt, tee, child, now, io, cl, pf, logs>>

\* The kill process ends.
KillExit ==
    /\ kl.pc = "exit"
    /\ kl' = KlIdle
    /\ UNCHANGED <<opts, files, state, fe, sv, wt, tee, child, now, io, cl, pf, logs>>

----------------------------------------------------------------------------
\* status, tail, wait and list.  One such invocation at a time; they only
\* read the store.

\* Variant: every error reported as internal_error.
MainErrorCodeFlat(e) == "internal_error"

\* main: the error code of the envelope for the error e execute returned.
MainErrorCode(e) == IF e = "JobNotFound" THEN "job_not_found" ELSE "internal_error"

\* The command line: wait's --timeout-ms and --poll-ms.  (With a poll of 0
\* the loop spins, each turn taking the time of a read: the least unit.)
ClInvoke(c, timeout_ms, poll_ms) ==
    /\ cl.pc = "idle"
    /\ cl' = [NoClient EXCEPT !.cmd = c,
                              !.pc = IF c = "list" THEN "list" ELSE "open",
                              !.timeout_ms = IF c = "wait" THEN timeout_ms ELSE 0,
                              !.poll_ms = IF c = "wait" THEN poll_ms ELSE 0]
    /\ UNCHANGED <<opts, files, state, fe, sv, wt, tee, child, kl, now, io, pf, logs>>

\* execute returns Err(e).
ClFail(e) == [cl EXCEPT !.pc = "main", !.err = Some(e)]

\* Variant: a command that fails after it has printed its response.
ClPrintAndFail(r) == [cl EXCEPT !.pc = "main", !.out = Append(@, r), !.err = Some("io")]

\* response.print() and return Ok(())
ClPrint(r) == [cl EXCEPT !.pc = "main", !.out = Append(@, r)]

\* Variant: wait without a deadline.
WaitDeadlineNever(timeout_ms, t) == None

\* wait's deadline for --timeout-ms, computed at time t.
WaitDeadline(timeout_ms, t) == IF timeout_ms > 0 THEN Some(t + timeout_ms) ELSE None

\* JobDir::open, and wait's deadline
ClOpen ==
    /\ cl.pc = "open"
    /\ IF "." \notin files
       THEN cl' = ClFail("JobNotFound")
       ELSE cl' = [cl EXCEPT !.pc = CASE cl.cmd = "status" -> "meta"
                                      [] cl.cmd = "tail" -> "tail"
                                      [] OTHER -> "poll",
                             !.deadline = IF cl.cmd = "wait"
                                          THEN WaitDeadline(cl.timeout_ms, cl.clock)
                                          ELSE None]
    /\ UNCHANGED <<opts, files, state, fe, sv, wt, tee, child, kl, now, io, pf, logs>>

\* status: job_dir.read_meta()?
StatusMeta ==
    /\ cl.pc = "meta"
    /\ cl' = IF "meta.json" \in files THEN [cl EXCEPT !.pc = "state"] ELSE ClFail("io")
    /\ UNCHANGED <<opts, files, state, fe, sv, wt, tee, child, kl, now, io, pf, logs>>

\* status: job_dir.read_state()? and the response
StatusState ==
    /\ cl.pc = "state"
    /\ cl' = IF ReadOk THEN ClPrint(StatusResponse(Unwrap(read_state))) ELSE ClFail("io")
    /\ UNCHANGED <<opts, files, state, fe, sv, wt, tee, child, kl, now, io, pf, logs>>

\* tail: the log reads fall back to empty, nothing fails
TailPrint ==
    /\ cl.pc = "tail"
    /\ cl' = ClPrint(TailResponse)
    /\ UNCHANGED <<opts, files, state, fe, sv, wt, tee, child, kl, now, io, pf, logs>>

\* Variant: the deadline looked at before the status.
WaitOutcomeDeadlineFirst(d, deadline, t) ==
    IF IsSome(deadline) /\ t >= Unwrap(deadline) THEN "timeout"
    ELSE IF d.status # "running" THEN "terminal"
    ELSE "sleep"

\* One turn of wait's loop on the document d read, at time t.
WaitOutcome(d, deadline, t) ==
    IF d.status # "running" THEN "terminal"
    ELSE IF IsSome(deadline) /\ t >= Unwrap(deadline) THEN "timeout"
    ELSE "sleep"

\* wait: read_state()?, the status, the deadline
WaitPoll ==
    /\ cl.pc = "poll"
    /\ IF ~ReadOk
       THEN cl' = ClFail("io")
       ELSE LET d == Unwrap(read_state)
                o == WaitOutcome(d, cl.deadline, cl.clock)
            IN  cl' = CASE o = "terminal" -> ClPrint(WaitResponse(d.status, d.exit_code))
                        [] o = "timeout" -> ClPrint(WaitResponse("running", None))
                        [] OTHER -> [cl EXCEPT !.pc = "sleep"]
    /\ UNCHANGED <<opts, files, state, fe, sv, wt, tee, child, kl, now, io, pf, logs>>

\* wait: std::thread::sleep(poll).  The clock is read against a deadline
\* only.
WaitSleep ==
    /\ cl.pc = "sleep"
    /\ cl' = [cl EXCEPT !.pc = "poll",
                        !.clock = IF IsSome(cl.deadline) THEN @ + cl.poll_ms ELSE @]
    /\ UNCHANGED <<opts, files, state, fe, sv, wt, tee, child, kl, now, io, pf, logs>>

\* list: the root is missing, or read_dir fails, or the job directory is
\* looked at: skipped without a readable meta.json, state unknown without
\* a readable state.json
ListScan ==
    /\ cl.pc = "list"
    /\ \/ cl' = ClPrint(ListResponse({}, 0))
       \/ cl' = ClFail("io")
       \/ cl' = ClPrint(IF "." \notin files THEN ListResponse({}, 0)
                        ELSE IF "meta.json" \notin files THEN ListResponse({}, 1)
                        ELSE ListResponse({IF ReadOk THEN StatusNow ELSE "unknown"}, 0))
    /\ UNCHANGED <<opts, files, state, fe, sv, wt, tee, child, kl, now, io, pf, logs>>

\* main after run(cli): an error is printed as an envelope and the process
\* exits with 1
ClMain ==
    /\ cl.pc = "main"
    /\ cl' = IF IsSome(cl.err)
             THEN [cl EXCEPT !.pc = "exit", !.code = Some(1),
                             !.out = Append(@, ErrorResponse(MainErrorCode(Unwrap(cl.err))))]
             ELSE [cl EXCEPT !.pc = "exit", !.code = Some(0)]
    /\ UNCHANGED <<opts, files, state, fe, sv, wt, tee, child, kl, now, io, pf, logs>>

\* The process is gone.
ClExit ==
    /\ cl.pc = "exit"
    /\ cl' = NoClient
    /\ UNCHANGED <<opts, files, state, fe, sv, wt, tee, child, kl, now, io, pf, logs>>

----------------------------------------------------------------------------
\* run::execute after init_state: the snapshot phase, the --wait phase and
\* the response.  Here cl holds run's options and the locals of these
\* phases; clock is the time since wait_start, in ms.

MAX_SNAPSHOT_AFTER_MS == 10000
SnapshotPollMs == 15

Min(a, b) == IF a < b THEN a ELSE b
Max(a, b) == IF a > b THEN a ELSE b

RunIdle == [cmd |-> "run", pc |-> "init", snapshot_after |-> 0, wait |-> FALSE,
            wait_poll_ms |-> 0, eff |-> 0, deadline |-> 0, clock |-> 0,
            seen |-> None, snapshot |-> None, final |-> None]

\* Response::new("run", RunData {..}); final: Some(state, exit_code,
\* finished_at, final_snapshot) after --wait.  A snapshot is the bytes of
\* output it holds.
RunData(final, snapshot, waited_ms) ==
    [schema_version |-> SCHEMA_VERSION, ok |-> TRUE, type |-> "run", job_id |-> JobId,
     state |-> IF IsSome(final) THEN Unwrap(final).state ELSE "running",
     snapshot |-> snapshot, waited_ms |-> waited_ms,
     exit_code |-> IF IsSome(final) THEN Unwrap(final).exit_code ELSE None,
     finished_at |-> IF IsSome(final) THEN Unwrap(final).finished_at ELSE None,
     final_snapshot |-> IF IsSome(final) THEN Some(Unwrap(final).snapshot) ELSE None]

\* Variant: snapshot_after taken as given.
EffectiveSnapshotAfterUnclamped(wait, snapshot_after) ==
    IF wait THEN 0 ELSE snapshot_after

EffectiveSnapshotAfter(wait, snapshot_after) ==
    IF wait THEN 0 ELSE Min(snapshot_after, MAX_SNAPSHOT_AFTER_MS)

\* effective_snapshot_after, wait_start, deadline
RunClamp ==
    /\ fe.pc = "print"
    /\ cl.pc = "init"
    /\ LET eff == EffectiveSnapshotAfter(cl.wait, cl.snapshot_after)
       IN  cl' = [cl EXCEPT !.eff = eff, !.clock = 0, !.deadline = eff,
                            !.pc = IF eff > 0 THEN "snap_sleep"
                                   ELSE IF cl.wait THEN "wait_sleep" ELSE "respond"]
    /\ UNCHANGED <<opts, files, state, fe, sv, wt, tee, child, kl, now, io, pf, logs>>

\* std::thread::sleep(poll_interval)
RunSnapSleep ==
    /\ cl.pc = "snap_sleep"
    /\ cl' = [cl EXCEPT !.pc = "snap_poll", !.clock = @ + SnapshotPollMs]
    /\ UNCHANGED <<opts, files, state, fe, sv, wt, tee, child, kl, now, io, pf, logs>>

\* Variant: the loop also ends once there is output.
SnapshotBreakOnOutput(st, t, deadline, output) ==
    \/ IsSome(st) /\ Unwrap(st).status # "running"
    \/ t >= deadline
    \/ output > 0

\* Whether the snapshot loop ends at time t, having read st (None when
\* read_state failed), with `output` bytes in the logs.
SnapshotBreak(st, t, deadline, output) ==
    \/ IsSome(st) /\ Unwrap(st).status # "running"
    \/ t >= deadline

\* One turn of the snapshot loop after its sleep, and build_snapshot
RunSnapPoll ==
    /\ cl.pc = "snap_poll"
    /\ IF SnapshotBreak(read_state, cl.clock, cl.deadline, logs)
       THEN cl' = [cl EXCEPT !.pc = IF cl.wait THEN "wait_sleep" ELSE "respond",
                             !.seen = IF ReadOk THEN Some(StatusNow) ELSE None,
                             !.snapshot = Some(logs)]
       ELSE cl' = [cl EXCEPT !.pc = "snap_sleep"]
    /\ UNCHANGED <<opts, files, state, fe, sv, wt, tee, child, kl, now, io, pf, logs>>

\* std::thread::sleep(poll) with poll = wait_poll_ms.max(1).  (Time past
\* WaitedCap is recorded as WaitedCap.)
RunWaitSleep ==
    /\ cl.pc = "wait_sleep"
    /\ cl' = [cl EXCEPT !.pc = "wait_poll",
                        !.clock = Min(@ + Max(cl.wait_poll_ms, 1), Max(@, WaitedCap))]
    /\ UNCHANGED <<opts, files, state, fe, sv, wt, tee, child, kl, now, io, pf, logs>>

\* One turn of the --wait loop after its sleep
RunWaitPoll ==
    /\ cl.pc = "wait_poll"
    /\ IF ReadOk /\ StatusNow # "running"
       THEN LET st == Unwrap(read_state)
            IN  cl' = [cl EXCEPT !.pc = "respond",
                                 !.final = Some([state |-> st.status,
                                                 exit_code |-> st.exit_code,
                                                 finished_at |-> st.finished_at,
                                                 snapshot |-> logs])]
       ELSE cl' = [cl EXCEPT !.pc = "wait_sleep"]
    /\ UNCHANGED <<opts, files, state, fe, sv, wt, tee, child, kl, now, io, pf, logs>>

\* waited_ms and response.print()
RunRespond ==
    /\ cl.pc = "respond"
    /\ cl' = [cl EXCEPT !.pc = "done"]
    /\ fe' = [fe EXCEPT !.pc = "done", !.out = Some(RunData(cl.final, cl.snapshot, cl.clock))]
    /\ UNCHANGED <<opts, files, state, sv, wt, tee, child, kl, now, io, pf, logs>>

\* stream_to_logs: the command writes, the tee worker copies it to stdout.log
TeeWrite ==
    /\ tee["STDOUT"] = "read"
    /\ child.st = "running"
    /\ logs < MaxOutput
    /\ logs' = logs + 1
    /\ UNCHANGED <<opts, files, state, fe, sv, wt, tee, child, kl, now, io, cl, pf>>

----------------------------------------------------------------------------
\* What run stores of --env and --mask.  A string is the sequence of its
\* characters.

\* s.find('='): the position of the first '=', 0 when there is none.
find_eq(s) ==
    IF \E i \in 1..Len(s) : s[i] = "="
    THEN CHOOSE i \in 1..Len(s) : s[i] = "=" /\ \A j \in 1..(i - 1) : s[j] # "="
    ELSE 0

\* parse_env_var(s): (key, value)
parse_env_var(s) ==
    LET pos == find_eq(s)
    IN  IF pos > 0
        THEN [key |-> SubSeq(s, 1, pos - 1), val |-> SubSeq(s, pos + 1, Len(s))]
        ELSE [key |-> s, val |-> <<>>]

\* kv.split('=').next(): the text before the first '='
split_first(kv) ==
    LET pos == find_eq(kv)
    IN  IF pos > 0 THEN SubSeq(kv, 1, pos - 1) ELSE kv

env_keys(env_vars) == [i \in 1..Len(env_vars) |-> split_first(env_vars[i])]

\* format!("{key}=***")
Stars(key) == key \o <<"=", "*", "*", "*">>

\* Variant: the mask compared with the whole entry.
mask_env_vars_whole(env_vars, mask_keys) ==
    IF mask_keys = <<>> THEN env_vars
    ELSE [i \in 1..Len(env_vars) |->
            IF \E j \in 1..Len(mask_keys) : mask_keys[j] = env_vars[i]
            THEN Stars(parse_env_var(env_vars[i]).key)
            ELSE env_vars[i]]

mask_env_vars(env_vars, mask_keys) ==
    IF mask_keys = <<>> THEN env_vars
    ELSE [i \in 1..Len(env_vars) |->
            IF \E j \in 1..Len(mask_keys) : mask_keys[j] = parse_env_var(env_vars[i]).key
            THEN Stars(parse_env_var(env_vars[i]).key)
            ELSE env_vars[i]]

\* The env part of JobMeta, as execute builds it.
JobMeta(env_vars, mask) ==
    [env_keys |-> env_keys(env_vars),
     env_vars |-> mask_env_vars(env_vars, mask),
     mask |-> mask]

\* The env part of RunData.
RunDataEnv(env_vars, mask) == mask_env_vars(env_vars, mask)

\* The command lines: --env entries, --mask keys.
Chars == {"k", "="}
Strs(n) == UNION {[1..m -> Chars] : m \in 0..n}
EnvArgs == UNION {[1..n -> Strs(MaxEntryLen)] : n \in 0..MaxEnv}
MaskKeys == {<<>>, <<"k">>, <<"k", "k">>}
MaskArgs == UNION {[1..n -> MaskKeys] : n \in 0..MaxMask}
AltValues == {<<"v">>}

\* The --env entries of a second invocation: the same, but for the value
\* of every key listed in --mask, which is alt.
OtherEnv(env_vars, mask, alt) ==
    [i \in 1..Len(env_vars) |->
        LET key == parse_env_var(env_vars[i]).key
        IN  IF \E j \in 1..Len(mask) : mask[j] = key
            THEN key \o <<"=">> \o alt
            ELSE env_vars[i]]

\* The two invocations, to JobDir::create and to the response.
EnvRun ==
    /\ pf.fn = "args"
    /\ pf' = [pf EXCEPT !.fn = "done",
                        !.meta = Some(JobMeta(pf.env, pf.mask)),
                        !.resp = Some(RunDataEnv(pf.env, pf.mask)),
                        !.meta2 = Some(JobMeta(pf.env2, pf.mask)),
                        !.resp2 = Some(RunDataEnv(pf.env2, pf.mask))]
    /\ UNCHANGED <<opts, files, state, fe, sv, wt, tee, child, kl, now, io, cl, logs>>

----------------------------------------------------------------------------
\* The tail engine (jobstore.rs).  A log file is the sequence of its bytes;
\* a String is the sequence of its code points.

\* The bytes the files of the model are made of: LF, CR, 'a', the two
\* bytes of U+00E9 (a lead and a continuation byte), and 0xFF, which
\* occurs in no UTF-8 encoding.
Bytes == {10, 13, 97, 195, 169, 255}

REPLACEMENT_CHARACTER == 65533

\* String::from_utf8_lossy over Bytes: an ASCII byte is itself, a lead
\* followed by a continuation byte is one two-byte character, any other
\* byte is one replacement character.
RECURSIVE from_utf8_lossy(_)
from_utf8_lossy(b) ==
    IF b = <<>> THEN <<>>
    ELSE IF b[1] < 128 THEN <<b[1]>> \o from_utf8_lossy(Tail(b))
    ELSE IF b[1] \in 194..223 /\ Len(b) >= 2 /\ b[2] \in 128..191
         THEN <<(b[1] % 32) * 64 + (b[2] % 64)>>
                  \o from_utf8_lossy(SubSeq(b, 3, Len(b)))
    ELSE <<REPLACEMENT_CHARACTER>> \o from_utf8_lossy(Tail(b))

\* char::len_utf8
len_utf8(c) == IF c < 128 THEN 1 ELSE IF c < 2048 THEN 2 ELSE IF c < 65536 THEN 3 ELSE 4

\* String::len: the length of the UTF-8 encoding
RECURSIVE str_len(_)
str_len(s) == IF s = <<>> THEN 0 ELSE len_utf8(s[1]) + str_len(Tail(s))

\* s.find('\n'): the position of the first LF, 0 when there is none.
find_lf(s) ==
    IF \E i \in 1..Len(s) : s[i] = 10
    THEN CHOOSE i \in 1..Len(s) : s[i] = 10 /\ \A j \in 1..(i - 1) : s[j] # 10
    ELSE 0

\* A line without the CR of its CR LF ending.
strip_cr(l) ==
    IF l # <<>> /\ l[Len(l)] = 13 THEN SubSeq(l, 1, Len(l) - 1) ELSE l

\* str::lines: the text is cut after every LF; a line loses its LF or
\* CR LF ending; the text after the last LF is a line when not empty.
RECURSIVE lines(_)
lines(s) ==
    IF s = <<>> THEN <<>>
    ELSE LET nl == find_lf(s)
         IN  IF nl = 0 THEN <<s>>
             ELSE <<strip_cr(SubSeq(s, 1, nl - 1))>> \o lines(SubSeq(s, nl + 1, Len(s)))

\* [&str]::join("\n")
RECURSIVE join(_)
join(ls) ==
    IF ls = <<>> THEN <<>>
    ELSE IF Len(ls) = 1 THEN ls[1]
    ELSE ls[1] \o <<10>> \o join(Tail(ls))

\* usize::saturating_sub
saturating_sub(a, b) == IF a > b THEN a - b ELSE 0

\* Variant: only the cut by bytes is reported.
tail_log_bytes_only(file, tail_lines, max_bytes) ==
    IF file = None THEN [tail |-> <<>>, truncated |-> FALSE]
    ELSE LET data == Unwrap(file)
             byte_truncated == Len(data) > max_bytes
             start == IF byte_truncated THEN Len(data) - max_bytes ELSE 0
             text == from_utf8_lossy(SubSeq(data, start + 1, Len(data)))
             ls == lines(text)
             skip == saturating_sub(Len(ls), tail_lines)
         IN  IF tail_lines = 0
             THEN [tail |-> text, truncated |-> byte_truncated]
             ELSE [tail |-> join(SubSeq(ls, skip + 1, Len(ls))),
                   truncated |-> byte_truncated]

\* tail_log_with_truncated: (content, truncated).  file is None when the
\* read fails.
tail_log_with_truncated(file, tail_lines, max_bytes) ==
    IF file = None THEN [tail |-> <<>>, truncated |-> FALSE]
    ELSE LET data == Unwrap(file)
             byte_truncated == Len(data) > max_bytes
             start == IF byte_truncated THEN Len(data) - max_bytes ELSE 0
             text == from_utf8_lossy(SubSeq(data, start + 1, Len(data)))
             ls == lines(text)
             skip == saturating_sub(Len(ls), tail_lines)
             line_truncated == skip > 0
         IN  IF tail_lines = 0
             THEN [tail |-> text, truncated |-> byte_truncated]
             ELSE [tail |-> join(SubSeq(ls, skip + 1, Len(ls))),
                   truncated |-> byte_truncated \/ line_truncated]

\* fs::metadata(path).map(|m| m.len()).unwrap_or(0)
metadata_len(file) == IF file = None THEN 0 ELSE Len(Unwrap(file))

\* read_tail_metrics, which run's snapshot uses.
read_tail_metrics(file, tail_lines, max_bytes) ==
    LET r == tail_log_with_truncated(file, tail_lines, max_bytes)
    IN  [tail |-> r.tail,
         truncated |-> r.truncated,
         observed_bytes |-> metadata_len(file),
         included_bytes |-> str_len(r.tail)]

\* One stream of the tail command's TailData.
TailData(file, tail_lines, max_bytes) ==
    LET r == tail_log_with_truncated(file, tail_lines, max_bytes)
        observed_bytes == metadata_len(file)
        included_bytes == str_len(r.tail)
    IN  [tail |-> r.tail,
         truncated |-> r.truncated,
         observed_bytes |-> observed_bytes,
         included_bytes |-> included_bytes]

\* The log files, --tail-lines and --max-bytes of the model.
LogContents == UNION {[1..n -> Bytes] : n \in 0..MaxFileLen}
LogArgs == {None} \cup {Some(b) : b \in LogContents}
TailLinesArgs == 0..MaxTailLines
MaxBytesArgs == 0..(MaxFileLen + 1)

\* tail on a job with this stdout.log.
TailRun ==
    /\ pf.fn = "args"
    /\ pf' = [pf EXCEPT !.fn = "tail",
                        !.cmd = Some(TailData(pf.file, pf.tail_lines, pf.max_bytes))]
    /\ UNCHANGED <<opts, files, state, fe, sv, wt, tee, child, kl, now, io, cl, logs>>

\* run's snapshot of a job with this stdout.log.
SnapshotRun ==
    /\ pf.fn = "args"
    /\ pf' = [pf EXCEPT !.fn = "snapshot",
                        !.cmd = Some(read_tail_metrics(pf.file, pf.tail_lines, pf.max_bytes))]
    /\ UNCHANGED <<opts, files, state, fe, sv, wt, tee, child, kl, now, io, cl, logs>>

----------------------------------------------------------------------------
\* list (list.rs).  The root directory is the sequence of its entries in
\* the order read_dir yields them.  An entry: its name; its kind, "error"
\* when read_dir fails on it, "file" when it is not a directory, "dir"
\* otherwise; meta, what meta.json parses to, None when it cannot be read
\* or parsed; st, the status in state.json, None when it cannot be read
\* or parsed.  Timestamps are numbered in their order as strings.

\* The directories of the model; Link is a symbolic link to DirA.
DirA == "/a"
DirB == "/b"
Link == "/l"
Paths == {DirA, DirB, Link}

\* The path with its symbolic links resolved.
canonicalize(p) == IF p = Link THEN DirA ELSE p

\* resolve_effective_cwd: the directory given, else the current one, resolved.
resolve_effective_cwd(cwd_arg, current_dir) ==
    canonicalize(IF cwd_arg = None THEN current_dir ELSE Unwrap(cwd_arg))

\* cwd_filter: --all > --cwd <PATH> > current_dir.
cwd_filter(o) ==
    IF o.all THEN None
    ELSE IF o.cwd # None THEN Some(resolve_effective_cwd(o.cwd, o.current_dir))
    ELSE Some(resolve_effective_cwd(None, o.current_dir))

JobSummary(meta, st) ==
    [job_id |-> meta.id,
     state |-> IF st = None THEN "unknown" ELSE Unwrap(st),
     started_at |-> meta.created_at]

\* Variant: a job without a recorded cwd passes every filter.
list_scan_lenient(entries, filter) ==
    LET Step[i \in 0..Len(entries)] ==
            IF i = 0 THEN [jobs |-> <<>>, skipped |-> 0]
            ELSE LET acc == Step[i - 1]
                     e == entries[i]
                 IN  IF e.kind = "error" THEN [acc EXCEPT !.skipped = @ + 1]
                     ELSE IF e.kind # "dir" THEN acc
                     ELSE IF e.meta = None THEN [acc EXCEPT !.skipped = @ + 1]
                     ELSE IF filter # None /\ Unwrap(e.meta).cwd # None
                                           /\ Unwrap(e.meta).cwd # filter THEN acc
                     ELSE [acc EXCEPT !.jobs = Append(@, JobSummary(Unwrap(e.meta), e.st))]
    IN  Step[Len(entries)]

\* Variant: a job the cwd filter removes is counted in skipped.
list_scan_counting(entries, filter) ==
    LET Step[i \in 0..Len(entries)] ==
            IF i = 0 THEN [jobs |-> <<>>, skipped |-> 0]
            ELSE LET acc == Step[i - 1]
                     e == entries[i]
                 IN  IF e.kind = "error" THEN [acc EXCEPT !.skipped = @ + 1]
                     ELSE IF e.kind # "dir" THEN acc
                     ELSE IF e.meta = None THEN [acc EXCEPT !.skipped = @ + 1]
                     ELSE IF filter # None /\ Unwrap(e.meta).cwd # filter
                          THEN [acc EXCEPT !.skipped = @ + 1]
                     ELSE [acc EXCEPT !.jobs = Append(@, JobSummary(Unwrap(e.meta), e.st))]
    IN  Step[Len(entries)]

\* The loop over read_dir: the summaries in the order read, and skipped.
list_scan(entries, filter) ==
    LET Step[i \in 0..Len(entries)] ==
            IF i = 0 THEN [jobs |-> <<>>, skipped |-> 0]
            ELSE LET acc == Step[i - 1]
                     e == entries[i]
                 IN  IF e.kind = "error" THEN [acc EXCEPT !.skipped = @ + 1]
                     ELSE IF e.kind # "dir" THEN acc
                     ELSE IF e.meta = None THEN [acc EXCEPT !.skipped = @ + 1]
                     ELSE IF filter # None /\ Unwrap(e.meta).cwd # filter THEN acc
                     ELSE [acc EXCEPT !.jobs = Append(@, JobSummary(Unwrap(e.meta), e.st))]
    IN  Step[Len(entries)]

\* The comparator of sort_by says a goes before b.
list_before(a, b) ==
    \/ b.started_at < a.started_at
    \/ b.started_at = a.started_at /\ b.job_id < a.job_id

\* Variant: ascending.
list_sort_ascending(jobs) ==
    LET Ins[i \in 0..Len(jobs)] ==
            IF i = 0 THEN <<>>
            ELSE LET s == Ins[i - 1]
                     x == jobs[i]
                     k == Cardinality({j \in 1..Len(s) : ~list_before(s[j], x)})
                 IN  SubSeq(s, 1, k) \o <<x>> \o SubSeq(s, k + 1, Len(s))
    IN  Ins[Len(jobs)]

\* Vec::sort_by with that comparator: a stable sort.  Each element is put
\* behind the elements that do not go after it.
list_sort(jobs) ==
    LET Ins[i \in 0..Len(jobs)] ==
            IF i = 0 THEN <<>>
            ELSE LET s == Ins[i - 1]
                     x == jobs[i]
                     k == Cardinality({j \in 1..Len(s) : ~list_before(x, s[j])})
                 IN  SubSeq(s, 1, k) \o <<x>> \o SubSeq(s, k + 1, Len(s))
    IN  Ins[Len(jobs)]

\* truncated and jobs.truncate(limit)
list_limit(jobs, limit) ==
    LET truncated == limit > 0 /\ Len(jobs) > limit
    IN  [jobs |-> IF truncated THEN SubSeq(jobs, 1, limit) ELSE jobs,
         truncated |-> truncated]

\* execute: ListData.  root is None when the root directory does not exist.
ListData(root, o) ==
    IF root = None THEN [jobs |-> <<>>, truncated |-> FALSE, skipped |-> 0]
    ELSE LET scanned == list_scan(Unwrap(root), cwd_filter(o))
             retained == IF o.state = None THEN scanned.jobs
                         ELSE SelectSeq(scanned.jobs, LAMBDA j : j.state = Unwrap(o.state))
             limited == list_limit(list_sort(retained), o.limit)
         IN  [jobs |-> limited.jobs, truncated |-> limited.truncated,
              skipped |-> scanned.skipped]

\* The entries of the model: a job directory is named after its job id.
Metas == [id : 1..MaxEntries, created_at : 1..2, cwd : {None, Some(DirA), Some(DirB)}]
ListEntries ==
    [name : 1..MaxEntries, kind : {"file", "error"}, meta : {None}, st : {None}]
        \cup [name : 1..MaxEntries, kind : {"dir"}, meta : {None}, st : {None}]
        \cup {[name |-> m.id, kind |-> "dir", meta |-> Some(m), st |-> st] :
                 m \in Metas, st \in {None, Some("running")}}
Roots ==
    {None} \cup
    {Some(r) : r \in {s \in UNION {[1..n -> ListEntries] : n \in 0..MaxEntries} :
                         \A i, j \in 1..Len(s) : s[i].name = s[j].name => i = j}}
ListOpts ==
    [limit : {0, 1, MaxEntries}, state : {None, Some("unknown")},
     cwd : {None}, all : {TRUE}, current_dir : {DirB}]
        \cup [limit : {0, 1, MaxEntries}, state : {None, Some("unknown")},
              cwd : {Some(DirA), Some(Link)}, all : {FALSE}, current_dir : {DirB}]
        \cup [limit : {0, 1, MaxEntries}, state : {None, Some("unknown")},
              cwd : {None}, all : {FALSE}, current_dir : {DirA}]

\* list, on this root with these options.
ListRun ==
    /\ pf.fn = "args"
    /\ pf' = [pf EXCEPT !.fn = "listed", !.out = Some(ListData(pf.root, pf.o))]
    /\ UNCHANGED <<opts, files, state, fe, sv, wt, tee, child, kl, now, io, cl, logs>>

\* list --all with the same --state and --limit, on the same root.
ListAllRun ==
    /\ pf.fn = "listed"
    /\ pf' = [pf EXCEPT !.fn = "done",
                        !.all = Some(ListData(pf.root, [pf.o EXCEPT !.all = TRUE, !.cwd = None]))]
    /\ UNCHANGED <<opts, files, state, fe, sv, wt, tee, child, kl, now, io, cl, logs>>

----------------------------------------------------------------------------
\* The child's environment (supervise).  An environment maps the names
\* of its variables to their values; an env file is the sequence of the
\* lines contents.lines() yields.

\* str::trim, the white space being the blank.
RECURSIVE trim(_)
trim(s) ==
    IF s = <<>> THEN s
    ELSE IF s[1] = " " THEN trim(Tail(s))
    ELSE IF s[Len(s)] = " " THEN trim(SubSeq(s, 1, Len(s) - 1))
    ELSE s

\* load_env_file: the (key, value) pairs of the lines that are neither
\* empty nor comments, once trimmed.
load_env_file(file) ==
    LET kept == SelectSeq([i \in 1..Len(file) |-> trim(file[i])],
                          LAMBDA l : ~(l = <<>> \/ l[1] = "#"))
    IN  [i \in 1..Len(kept) |-> parse_env_var(kept[i])]

\* Command::env(k, v)
command_env(env, k, v) ==
    [x \in DOMAIN env \cup {k} |-> IF x = k THEN v ELSE env[x]]

\* Command::env for each pair, in order.
RECURSIVE command_envs(_, _)
command_envs(env, pairs) ==
    IF pairs = <<>> THEN env
    ELSE command_envs(command_env(env, pairs[1].key, pairs[1].val), Tail(pairs))

\* The pairs of all the env files, in the order of the files.
RECURSIVE load_env_files(_)
load_env_files(env_files) ==
    IF env_files = <<>> THEN <<>>
    ELSE load_env_file(env_files[1]) \o load_env_files(Tail(env_files))

\* Variant: the env files applied after the --env entries.
child_env_files_last(inherited, inherit_env, env_files, env_vars) ==
    LET start == IF inherit_env THEN inherited ELSE <<>>
        explicit == command_envs(start, [i \in 1..Len(env_vars) |-> parse_env_var(env_vars[i])])
    IN  command_envs(explicit, load_env_files(env_files))

\* The environment child_cmd is spawned with: the supervisor's own or,
\* after env_clear, none; then the env files; then the --env entries.
child_env(inherited, inherit_env, env_files, env_vars) ==
    LET start == IF inherit_env THEN inherited ELSE <<>>
        filed == command_envs(start, load_env_files(env_files))
    IN  command_envs(filed, [i \in 1..Len(env_vars) |-> parse_env_var(env_vars[i])])

\* The supervisor's environment, the lines of the env files and the
\* --env entries of the model.
Inherited == [x \in {<<"k">>, <<"h">>} |-> <<"i">>]
FileLines == {<<" ">>, <<"#", "k", "=", "f">>, <<"k", "=", "f">>, <<" ", "k", "=", "g", " ">>}
EnvFiles == UNION {[1..n -> FileLines] : n \in 0..MaxFileLines}
EnvFileArgs == UNION {[1..n -> EnvFiles] : n \in 0..MaxEnvFiles}
ChildEnvArgs == UNION {[1..n -> {<<"k", "=", "e">>, <<"j">>}] : n \in 0..MaxEnv}

\* The supervisor builds the child's command.
ChildEnvRun ==
    /\ pf.fn = "args"
    /\ pf' = [pf EXCEPT !.fn = "done",
                        !.env = Some(child_env(Inherited, pf.inherit_env,
                                               pf.env_files, pf.env_vars))]
    /\ UNCHANGED <<opts, files, state, fe, sv, wt, tee, child, kl, now, io, cl, logs>>

----------------------------------------------------------------------------
\* Time passes: the running sleeps and deadlines get nearer.  (The wall
\* clock `now` stands still in this specification: every timestamp is the
\* same instant.)
Dec(n) == IF n > 0 THEN n - 1 ELSE 0

Tick ==
    /\ \/ fe.pc = "handshake" /\ fe.left > 0
       \/ wt.pc \in {"poll", "prog_read", "prog_trunc", "prog_write"} /\ wt.timeoutLeft > 0
       \/ wt.pc = "kill" /\ wt.sleepLeft > 0
    /\ fe' = [fe EXCEPT !.left = Dec(@)]
    /\ wt' = IF wt.pc = "kill"
             THEN [wt EXCEPT !.sleepLeft = Dec(@)]
             ELSE IF wt.pc \in {"poll", "prog_read", "prog_trunc", "prog_write"}
             THEN [wt EXCEPT !.timeoutLeft = Dec(@)]
             ELSE wt
    /\ UNCHANGED <<opts, files, state, sv, tee, child, kl, now, io, cl, pf, logs>>

----------------------------------------------------------------------------
FrontEnd ==
    \/ FeMkdir \/ FeWriteMeta \/ FePreCreateLogs \/ FeSpawn
    \/ FeInitState \/ FeHandshake \/ FePrint

Supervisor ==
    \/ SvSetup \/ SvSpawnChild \/ SvAssign
    \/ SvWriteFailed \/ SvWriteHandshake \/ SvSpawnThreads \/ SvWait
    \/ SvSetFlag \/ SvJoin \/ SvWriteTerminal

Tees == \E t \in Streams : TeeEof(t)

Watcher == WtPoll \/ WtTerm \/ WtKill \/ WtProgRead \/ WtProgTruncate \/ WtProgWrite

Kill ==
    \/ \E s \in SignalArgs : KillInvoke(s)
    \/ KillRead \/ KillSignalOk \/ KillSignalErr \/ KillWrite \/ KillPrint
    \/ KillExit

Child == \E c \in ExitCodes : ChildExit(c)

Next == FrontEnd \/ Supervisor \/ Tees \/ Watcher \/ Kill \/ Child \/ Tick

Spec == Init /\ [][Next]_vars

----------------------------------------------------------------------------
\* The supervision specification: one job from run to the supervisor's
\* end, no kill, a command that may leave descendants behind.  Every
\* process and thread of agent-exec keeps being scheduled; the command and
\* its descendants end when they please.
SuperviseNext ==
    FrontEnd \/ Supervisor \/ Tees \/ Watcher \/ Child \/ Tick \/ ChildFork \/ HeirsExit

SpecSupervise ==
    /\ Init
    /\ [][SuperviseNext]_vars
    /\ WF_vars(FrontEnd)
    /\ WF_vars(Supervisor)
    /\ WF_vars(Tees)
    /\ WF_vars(Watcher)
    /\ WF_vars(Tick)

----------------------------------------------------------------------------
\* The commands specification: the job of one run, and around it any
\* number of kill, status, tail, wait and list invocations.
WaitTimeouts == 0..MaxWaitTimeout
WaitPolls == 1..MaxPoll

Client ==
    \/ \E c \in {"status", "tail", "list"} : ClInvoke(c, 0, 0)
    \/ \E t \in WaitTimeouts, p \in WaitPolls : ClInvoke("wait", t, p)
    \/ ClOpen \/ StatusMeta \/ StatusState \/ TailPrint \/ WaitPoll \/ WaitSleep
    \/ ListScan \/ ClMain \/ ClExit

\* run and supervise as compiled for unix: no handshake, no Job Object.
FrontEndUnix ==
    FeMkdir \/ FeWriteMeta \/ FePreCreateLogs \/ FeSpawn \/ FeInitState \/ FePrint

SupervisorUnix ==
    \/ SvSetup \/ SvSpawnChild \/ SvWriteHandshake \/ SvSpawnThreads \/ SvWait
    \/ SvSetFlag \/ SvJoin \/ SvWriteTerminal

\* The watcher of a job without --timeout: the progress refresh only.
Progress == WtPoll \/ WtProgRead \/ WtProgTruncate \/ WtProgWrite

\* run --progress-every 100 -- <command>, on unix
CmdInit ==
    /\ Init
    /\ ~opts.windows
    /\ opts.timeout_ms = 0
    /\ opts.progress_every_ms = 100

CmdNext ==
    \/ FrontEndUnix \/ SupervisorUnix \/ Tees \/ Progress \/ Child
    \/ (cl.pc = "idle" /\ Kill)
    \/ (kl.pc = "idle" /\ Client)

SpecCmd == CmdInit /\ [][CmdNext]_vars

\* The wait specification: the same job and wait invocations, each of
\* which keeps running once started, as do run and the supervisor.
WaitRun == ClOpen \/ WaitPoll \/ WaitSleep \/ ClMain \/ ClExit

WaitNext ==
    \/ FrontEndUnix \/ SupervisorUnix \/ Tees \/ Progress \/ Child
    \/ \E t \in WaitTimeouts, p \in WaitPolls : ClInvoke("wait", t, p)
    \/ WaitRun

SpecWait ==
    /\ CmdInit
    /\ [][WaitNext]_vars
    /\ WF_vars(FrontEndUnix)
    /\ WF_vars(SupervisorUnix)
    /\ WF_vars(Tees)
    /\ WF_vars(Progress)
    /\ WF_vars(WaitRun)

----------------------------------------------------------------------------
\* The run specification: run on unix to its response, with --snapshot-after,
\* --wait and --wait-poll-ms, and the job it starts.  Each process keeps
\* being scheduled; the command writes and ends when it pleases.
SnapshotAfters ==
    {0, ShortSnapshot, MAX_SNAPSHOT_AFTER_MS, MAX_SNAPSHOT_AFTER_MS + 1}
WaitPollArgs == {0, MaxWaitPoll}

RunInit ==
    /\ opts = [timeout_ms |-> 0, kill_after_ms |-> 0, progress_every_ms |-> 0,
               windows |-> FALSE]
    /\ files = {}
    /\ state = Absent
    /\ fe = FeInit
    /\ sv = SvInit
    /\ wt = WtInit
    /\ tee = [t \in Streams |-> "none"]
    /\ child = ChildInit
    /\ kl = KlIdle
    /\ now = 0
    /\ io = IoInit
    /\ \/ \E sa \in SnapshotAfters :
             cl = [RunIdle EXCEPT !.snapshot_after = sa]
       \/ \E sa \in {0, ShortSnapshot}, p \in WaitPollArgs :
             cl = [RunIdle EXCEPT !.snapshot_after = sa, !.wait = TRUE, !.wait_poll_ms = p]
    /\ pf = NoWork
    /\ logs = 0

RunStart == FeMkdir \/ FeWriteMeta \/ FePreCreateLogs \/ FeSpawn \/ FeInitState

RunPolling ==
    RunClamp \/ RunSnapSleep \/ RunSnapPoll \/ RunWaitSleep \/ RunWaitPoll \/ RunRespond

RunNext == RunStart \/ RunPolling \/ SupervisorUnix \/ Tees \/ TeeWrite \/ Child

SpecRun ==
    /\ RunInit
    /\ [][RunNext]_vars
    /\ WF_vars(RunStart)
    /\ WF_vars(RunPolling)
    /\ WF_vars(SupervisorUnix)
    /\ WF_vars(Tees)

----------------------------------------------------------------------------
\* The env specification: two run invocations with the same --mask whose
\* --env differ in the values of the masked keys only.
EnvInit ==
    /\ opts = [timeout_ms |-> 0, kill_after_ms |-> 0, progress_every_ms |-> 0,
               windows |-> FALSE]
    /\ files = {}
    /\ state = Absent
    /\ fe = FeInit
    /\ sv = SvInit
    /\ wt = WtInit
    /\ tee = [t \in Streams |-> "none"]
    /\ child = ChildInit
    /\ kl = KlIdle
    /\ now = 0
    /\ io = IoInit
    /\ cl = NoClient
    /\ \E env \in EnvArgs, mask \in MaskArgs, alt \in AltValues :
          pf = [fn |-> "args", env |-> env, mask |-> mask,
                env2 |-> OtherEnv(env, mask, alt),
                meta |-> None, resp |-> None, meta2 |-> None, resp2 |-> None]
    /\ logs = 0

EnvNext == EnvRun

SpecEnv == EnvInit /\ [][EnvNext]_vars

----------------------------------------------------------------------------
\* The clock specification: the same job and kill invocations while the
\* wall clock advances, so that the timestamps the writers take differ.
ClockTick ==
    /\ now < MaxNow
    /\ now' = now + 1
    /\ UNCHANGED <<opts, files, state, fe, sv, wt, tee, child, kl, io, cl, pf, logs>>

ClockNext ==
    \/ FrontEndUnix \/ SupervisorUnix \/ Tees \/ Progress \/ Child \/ Kill
    \/ ClockTick

SpecClock == CmdInit /\ [][ClockNext]_vars

----------------------------------------------------------------------------
\* No job is running: the specifications of single functions start here.
NoJob ==
    /\ opts = [timeout_ms |-> 0, kill_after_ms |-> 0, progress_every_ms |-> 0,
               windows |-> FALSE]
    /\ files = {}
    /\ state = Absent
    /\ fe = FeInit
    /\ sv = SvInit
    /\ wt = WtInit
    /\ tee = [t \in Streams |-> "none"]
    /\ child = ChildInit
    /\ kl = KlIdle
    /\ now = 0
    /\ io = IoInit
    /\ cl = NoClient
    /\ logs = 0

\* The tail specification: tail and run's snapshot applied to one log
\* file, present with any content or absent.
TailInit ==
    /\ NoJob
    /\ \E file \in LogArgs, tail_lines \in TailLinesArgs, max_bytes \in MaxBytesArgs :
          pf = [fn |-> "args", file |-> file, tail_lines |-> tail_lines,
                max_bytes |-> max_bytes, cmd |-> None]

TailNext == TailRun \/ SnapshotRun

SpecTail == TailInit /\ [][TailNext]_vars

\* The list specification: list on one snapshot of the root directory.
ListInit ==
    /\ NoJob
    /\ \E root \in Roots, o \in ListOpts :
          pf = [fn |-> "args", root |-> root, o |-> o, out |-> None, all |-> None]

ListNext == ListRun \/ ListAllRun

SpecList == ListInit /\ [][ListNext]_vars

\* The child environment specification: supervise with any of the env
\* files and --env entries, with and without --no-inherit-env.
ChildEnvInit ==
    /\ NoJob
    /\ \E inherit_env \in BOOLEAN, env_files \in EnvFileArgs, env_vars \in ChildEnvArgs :
          pf = [fn |-> "args", inherit_env |-> inherit_env, env_files |-> env_files,
                env_vars |-> env_vars, env |-> None]

ChildEnvNext == ChildEnvRun

SpecChildEnv == ChildEnvInit /\ [][ChildEnvNext]_vars

----------------------------------------------------------------------------
\* The store specification: only the files move.
StoreInit ==
    /\ opts = [timeout_ms |-> 0, kill_after_ms |-> 0, progress_every_ms |-> 0,
               windows |-> FALSE]
    /\ files = {".", "meta.json"}
    /\ state = Absent
    /\ fe = FeInit
    /\ sv = SvInit
    /\ wt = WtInit
    /\ tee = [t \in Streams |-> "none"]
    /\ child = ChildInit
    /\ kl = KlIdle
    /\ now = 0
    /\ io = IoInit
    /\ cl = NoClient
    /\ pf = NoWork
    /\ logs = 0

StoreNext ==
    \/ \E x \in Writers, d \in Docs : WaTempfile(x, d)
    \/ \E x \in Writers : WaWriteAll(x) \/ WaPersist(x)
    \/ RdOpen \/ RdRead \/ RdReturn

SpecStore == StoreInit /\ [][StoreNext]_vars

----------------------------------------------------------------------------
\* Properties.

Terminal == JobStatus \ {"running"}

\* C1: once state.json holds a terminal status, no later content of
\* state.json has another status (terminal states are absorbing, the
\* status never returns to running).
C1_TerminalAbsorbing ==
    [][(StatusNow \in Terminal /\ IsSome(state'.doc))
         => Unwrap(state'.doc).status = StatusNow]_vars

\* A kill signalled the child and stored killed, and the supervisor's
\* terminal write then stored exited.
C1_Witness ==
    /\ kl.wrote
    /\ child.cause = "kill"
    /\ sv.pc = "done"
    /\ StatusNow = "exited"

\* C2: a read_state that runs while write_atomic calls are in progress
\* parses a whole document, one the target held at some moment of the read;
\* a read with no write in progress returns the last document written.
C2_AtomicReplace ==
    io.r.pc = "done" =>
        /\ IsSome(io.r.got)
        /\ io.r.got \subseteq io.r.span
        /\ io.r.quiet => io.r.got = Some(io.last)

\* A read completed while a writer had written part of its document, and
\* returned the document of a rename that happened during the read.
C2_Witness ==
    /\ io.r.pc = "done"
    /\ ~io.r.quiet
    /\ io.r.got = Some(2)
    /\ io.last # 2
    /\ \E x \in Writers : io.w[x].pc = "write" /\ io.w[x].off = 1

\* C3: from the moment run has printed its success response, meta.json,
\* state.json, stdout.log, stderr.log and full.log exist.
C3_FilesAfterRun ==
    fe.out = Some(RunResponse) =>
        /\ {"meta.json", "stdout.log", "stderr.log", "full.log"} \subseteq files
        /\ state.present

\* run has printed its response and the supervisor has not taken a step.
C3_Witness == fe.out = Some(RunResponse) /\ sv.pc = "open"

\* C4: when the child ended by itself with exit code c, the supervisor's
\* terminal write stores status exited, exit_code c, and non-null
\* duration_ms and finished_at.
C4_NaturalExit ==
    [][(sv.pc = "final" /\ sv'.pc = "done" /\ child.cause = "natural")
         => /\ IsSome(state'.doc)
            /\ IsSome(child.exit)
            /\ LET d == Unwrap(state'.doc)
               IN  /\ d.status = "exited"
                   /\ d.exit_code = child.exit
                   /\ IsSome(d.duration_ms)
                   /\ IsSome(d.finished_at)]_vars

\* The supervisor has finished a job whose child exited with code 1, and
\* state.json holds its terminal state.
C4_Witness ==
    /\ sv.pc = "done"
    /\ child.cause = "natural"
    /\ child.exit = Some(1)
    /\ StatusNow = "exited"
    /\ Unwrap(state.doc).exit_code = Some(1)

\* C5: a kill that read status running with a pid signals next; its write
\* comes after the signal and stores status killed, the upper-cased signal
\* name and a finished_at; its success response comes after the write.
C5_KillOrder ==
    [][/\ (kl.pc = "read" /\ kl'.pc # "read" /\ ReadOk
             /\ Unwrap(state.doc).status = "running" /\ IsSome(Unwrap(state.doc).pid))
          => (kl'.pc = "signal" /\ ~kl'.wrote /\ kl'.out = None)
       /\ (kl.pc = "signal" /\ kl'.pc # "signal")
          => \/ kl'.pc = "write" /\ kl'.signalled /\ ~kl'.wrote /\ kl'.out = None
             \/ kl'.pc = "exit" /\ ~kl'.wrote /\ kl'.out = Some(ErrorResponse("internal_error"))
       /\ (~kl.wrote /\ kl'.wrote)
          => /\ kl.signalled
             /\ kl.out = None /\ kl'.out = None
             /\ IsSome(state'.doc)
             /\ LET d == Unwrap(state'.doc)
                IN  /\ d.status = "killed"
                    /\ d.signal = Some(to_uppercase(kl.sig))
                    /\ IsSome(d.finished_at)
       /\ (kl.pc = "print" /\ kl'.pc # "print" /\ IsSome(kl.pid))
          => /\ kl.signalled /\ kl.wrote
             /\ kl'.out = Some(KillResponse(to_uppercase(kl.sig)))]_vars

\* A kill given "term" has signalled, written and printed {JOB, TERM}.
C5_Witness ==
    /\ kl.pc = "exit"
    /\ kl.sig = <<116, 101, 114, 109>>
    /\ kl.signalled /\ kl.wrote
    /\ kl.out = Some(KillResponse(TERM))

\* C6: a kill that reads a status other than running prints the success
\* envelope {job_id, upper-cased signal} at once: it sends no signal and
\* leaves state.json as it is, whenever and however often it is repeated.
C6_NoopKill ==
    [][(kl.pc = "read" /\ kl'.pc # "read" /\ ReadOk
          /\ Unwrap(state.doc).status # "running")
         => /\ kl'.pc = "exit"
            /\ kl'.out = Some(KillResponse(to_uppercase(kl.sig)))
            /\ ~kl'.signalled /\ ~kl'.wrote
            /\ state' = state /\ child' = child /\ sv' = sv]_vars

\* A kill given "Kill" found the job exited, did nothing and printed
\* {JOB, KILL}.
C6_Witness ==
    /\ kl.pc = "exit" /\ kl.noop
    /\ kl.sig = <<75, 105, 108, 108>>
    /\ ~kl.signalled /\ ~kl.wrote
    /\ kl.out = Some(KillResponse(KILL))
    /\ StatusNow = "exited"

\* C7: when a kill has ended the child and returned, and the supervisor
\* has finished, state.json holds status killed and a signal name.
C7_KilledIsFinal ==
    (sv.pc = "done" /\ child.cause = "kill" /\ kl.pc = "idle")
        => (StatusNow = "killed" /\ IsSome(Unwrap(state.doc).signal))

\* C8: when the watcher's timeout signals have ended the child and the
\* supervisor has finished, state.json holds status killed.
C8_TimeoutIsKilled ==
    (sv.pc = "done" /\ child.cause = "watcher" /\ kl.pc = "idle")
        => StatusNow = "killed"

\* C9: when the supervisor's setup has failed and the front-end has
\* returned, state.json holds status failed.
C9_SetupFailureIsFailed ==
    (sv.pc = "exit_err" /\ fe.pc = "done" /\ kl.pc = "idle")
        => StatusNow = "failed"

\* C10: the watcher's timeout branch, taken while the child is running,
\* sends terminate to the child, and hard-kill before it ends.
C10_TimeoutSignals ==
    [][/\ (wt.pc = "term" /\ wt'.pc # "term" /\ child.st = "running")
          => wt'.term_sent
       /\ (wt.pc = "kill" /\ wt'.pc = "done")
          => wt'.kill_sent]_vars

\* C11: once the child has exited, the supervisor finishes (the watcher
\* and the tee workers stop, the terminal state is written).
C11_SupervisorFinishes ==
    (sv.pc = "wait" /\ child.st = "zombie") ~> (sv.pc = "done")

\* C12: status, tail, wait and kill on a job whose directory does not
\* exist end with the one envelope ok=false, type error, code job_not_found,
\* retryable=false and exit code 1, and leave the store as it was; every
\* other failure is reported with code internal_error.
C12_JobNotFound ==
    /\ [][/\ (cl.pc = "open" /\ "." \notin files /\ cl' # cl)
             => cl'.err = Some("JobNotFound")
          /\ (cl' # cl) => (files' = files /\ state' = state)
          /\ (kl.pc = "read" /\ "." \notin files /\ kl' # kl)
             => /\ kl'.pc = "exit"
                /\ kl'.out = Some(ErrorResponse("job_not_found"))
                /\ kl'.code = Some(1)
                /\ files' = files /\ state' = state
          /\ (kl.pc # "exit" /\ kl'.pc = "exit" /\ kl'.code = Some(1) /\ "." \in files)
             => kl'.out = Some(ErrorResponse("internal_error"))]_vars
    /\ [](cl.pc = "exit" /\ IsSome(cl.err)
            => /\ Len(cl.out) = 1
               /\ cl.code = Some(1)
               /\ ~cl.out[1].ok /\ cl.out[1].type = "error" /\ ~cl.out[1].retryable
               /\ cl.out[1].code = IF cl.err = Some("JobNotFound")
                                   THEN "job_not_found" ELSE "internal_error")

\* A wait on a job that does not exist has printed job_not_found and
\* ended with exit code 1.
C12_Witness ==
    /\ cl.cmd = "wait" /\ cl.pc = "exit"
    /\ files = {} /\ state = Absent
    /\ cl.out = <<ErrorResponse("job_not_found")>>
    /\ cl.code = Some(1)

\* An envelope of sub-command c: success of that type, or an error.
IsEnvelope(e, c) ==
    /\ e.schema_version = "0.1"
    /\ \/ e.ok /\ e.type = c
       \/ ~e.ok /\ e.type = "error"

\* C13: an invocation of run, status, tail, wait, kill or list that has
\* ended has written exactly one envelope to stdout, a success envelope of
\* its type or an error envelope, with schema_version "0.1"; none writes a
\* second one.
C13_OneEnvelope ==
    /\ [](Len(cl.out) <= 1)
    /\ [](cl.pc = "exit" => Len(cl.out) = 1 /\ IsEnvelope(cl.out[1], cl.cmd))
    /\ [](kl.pc = "exit" => Cardinality(kl.out) = 1 /\ IsEnvelope(Unwrap(kl.out), "kill"))
    /\ [](fe.pc = "done" => Cardinality(fe.out) = 1 /\ IsEnvelope(Unwrap(fe.out), "run"))
    /\ [][/\ (kl'.out # kl.out) => (kl.out = None \/ kl'.out = None)
          /\ (fe'.out # fe.out) => fe.out = None]_vars

\* A status that could not read state.json has printed one error
\* envelope, after run has printed its own.
C13_Witness ==
    /\ cl.cmd = "status" /\ cl.pc = "exit"
    /\ cl.out = <<ErrorResponse("internal_error")>>
    /\ fe.out = Some(RunResponse)

\* C14: a turn of wait's loop that reads a status other than running
\* prints the success envelope with that status and its exit_code, whether
\* or not the deadline has passed; wait prints a terminal state only then;
\* it prints state running, without exit_code, only with timeout_ms > 0,
\* the deadline passed and running just read; both are success envelopes
\* and end with exit code 0.
C14_WaitOutcome ==
    /\ [][(cl.cmd = "wait" /\ cl.pc = "poll" /\ cl' # cl)
           => /\ (ReadOk /\ StatusNow # "running")
                 => /\ cl'.out = <<WaitResponse(StatusNow, Unwrap(state.doc).exit_code)>>
                    /\ cl'.err = None
              /\ (cl'.out # cl.out)
                 => /\ Len(cl'.out) = 1
                    /\ cl'.out[1].ok /\ cl'.out[1].type = "wait"
                    /\ cl'.err = None
                    /\ ReadOk
                    /\ cl'.out[1].state = StatusNow
                    /\ IF StatusNow = "running"
                       THEN /\ cl.timeout_ms > 0
                            /\ IsSome(cl.deadline)
                            /\ cl.clock >= cl.timeout_ms
                            /\ cl'.out[1].exit_code = None
                       ELSE cl'.out[1].exit_code = Unwrap(state.doc).exit_code]_vars
    /\ [](cl.pc = "exit" /\ cl.err = None => cl.code = Some(0))

\* A wait whose deadline had passed when it read exited with code 1 has
\* reported exited, exit_code 1.
C14_Witness ==
    /\ cl.cmd = "wait" /\ cl.pc = "exit"
    /\ cl.timeout_ms = 1
    /\ cl.clock >= cl.timeout_ms
    /\ cl.out = <<WaitResponse("exited", Some(1))>>
    /\ cl.code = Some(0)

\* C15 as stated: wait with timeout_ms > 0 returns, at most timeout_ms plus
\* one poll interval after it started; wait with timeout_ms = 0 returns
\* only with a non-running status it read, and does return if state.json
\* ends up showing a non-running status.
C15_WaitReturns ==
    /\ [](cl.cmd = "wait" /\ cl.timeout_ms > 0 => cl.clock <= cl.timeout_ms + cl.poll_ms)
    /\ (cl.cmd = "wait" /\ cl.pc = "open" /\ cl.timeout_ms > 0) ~> (cl.pc = "exit")
    /\ [](cl.cmd = "wait" /\ cl.pc = "exit" /\ cl.timeout_ms = 0
            /\ cl.err # Some("JobNotFound")
           => /\ Len(cl.out) = 1
              /\ cl.out[1].type = "wait"
              /\ cl.out[1].state \in Terminal)
    /\ (<>[](ReadOk /\ StatusNow \in Terminal))
         => ((cl.cmd = "wait" /\ cl.pc = "open" /\ cl.timeout_ms = 0) ~> (cl.pc = "exit"))

\* C15, amended: as above, but a wait with timeout_ms = 0 ends either with
\* a non-running status it read or with the error of a read_state that
\* failed.
C15_WaitReturnsOrFails ==
    /\ [](cl.cmd = "wait" /\ cl.timeout_ms > 0 => cl.clock <= cl.timeout_ms + cl.poll_ms)
    /\ (cl.cmd = "wait" /\ cl.pc = "open" /\ cl.timeout_ms > 0) ~> (cl.pc = "exit")
    /\ [](cl.cmd = "wait" /\ cl.pc = "exit" /\ cl.timeout_ms = 0
           => \/ /\ cl.err = None
                 /\ Len(cl.out) = 1
                 /\ cl.out[1].type = "wait"
                 /\ cl.out[1].state \in Terminal
              \/ /\ IsSome(cl.err)
                 /\ cl.out = <<ErrorResponse(MainErrorCode(Unwrap(cl.err)))>>)
    /\ (<>[](ReadOk /\ StatusNow \in Terminal))
         => ((cl.cmd = "wait" /\ cl.pc = "open" /\ cl.timeout_ms = 0) ~> (cl.pc = "exit"))

\* A wait with timeout_ms = 0 has ended with internal_error while the
\* child was running: it read state.json as the progress refresh had
\* truncated it.
C15_Witness ==
    /\ cl.cmd = "wait" /\ cl.pc = "exit"
    /\ cl.timeout_ms = 0
    /\ cl.out = <<ErrorResponse("internal_error")>>
    /\ child.st = "running"
    /\ sv.pc = "wait"

\* C16: every run with a command prints its response in the end, also
\* with --wait on a job whose supervisor failed before writing a terminal
\* state.
C16_RunReturns == (fe.pc = "print" /\ sv.pc = "exit_err") ~> (fe.pc = "done")

C18_SnapshotClamp ==
    /\ (cl.pc # "init" /\ ~cl.wait)
       => /\ cl.eff = Min(cl.snapshot_after, 10000)
          /\ cl.clock <= cl.eff + 15
          /\ cl.snapshot_after > 10000 => cl.clock <= 10015
    /\ (cl.pc = "done" /\ ~cl.wait)
       => /\ Unwrap(fe.out).waited_ms <= cl.eff + 15
          /\ cl.snapshot_after = 0 => Unwrap(fe.out).waited_ms = 0
    /\ cl.pc = "done"
       => (IsSome(Unwrap(fe.out).snapshot) <=> cl.eff > 0)

\* run --snapshot-after 10001 has answered after 10005 ms with a snapshot,
\* the job still running.
C18_Witness ==
    /\ cl.pc = "done"
    /\ cl.snapshot_after = MAX_SNAPSHOT_AFTER_MS + 1
    /\ Unwrap(fe.out).waited_ms = 10005
    /\ IsSome(Unwrap(fe.out).snapshot)
    /\ Unwrap(fe.out).state = "running"

\* C19: two runs that differ only in the values of masked keys store the
\* same env_keys, env_vars and mask in meta.json and print the same
\* env_vars, in which every entry of a masked key is KEY=***.
C19_MaskHidesValues ==
    pf.fn = "done"
        => /\ pf.meta = pf.meta2
           /\ pf.resp = pf.resp2
           /\ \A i \in 1..Len(pf.env) :
                 LET key == parse_env_var(pf.env[i]).key
                 IN  (\E j \in 1..Len(pf.mask) : pf.mask[j] = key)
                       => /\ Unwrap(pf.meta).env_vars[i] = key \o <<"=", "*", "*", "*">>
                          /\ Unwrap(pf.resp)[i] = key \o <<"=", "*", "*", "*">>

\* --env k=k --env =k --mask k and --env k=v --env =k --mask k have both
\* stored and printed k=*** and =k.
C19_Witness ==
    /\ pf.fn = "done"
    /\ pf.env = << <<"k", "=", "k">>, <<"=", "k">> >>
    /\ pf.env2 = << <<"k", "=", "v">>, <<"=", "k">> >>
    /\ pf.mask = << <<"k">> >>
    /\ Unwrap(pf.meta2).env_vars = << <<"k", "=", "*", "*", "*">>, <<"=", "k">> >>
    /\ Unwrap(pf.resp) = Unwrap(pf.meta2).env_vars

\* C20: in meta.json, env_keys holds the text before the first '=' of
\* each --env entry; every key of mask is the key of some env_vars entry;
\* every env_vars entry whose key is in mask has the value ***, and the
\* others are stored as given, in the order given.
C20_MetaEnv ==
    pf.fn = "done"
        => LET m == Unwrap(pf.meta)
               Masked(key) == \E j \in 1..Len(m.mask) : m.mask[j] = key
           IN  /\ Len(m.env_keys) = Len(pf.env)
               /\ Len(m.env_vars) = Len(pf.env)
               /\ \A i \in 1..Len(pf.env) :
                     /\ m.env_keys[i] = parse_env_var(pf.env[i]).key
                     /\ \A c \in 1..Len(m.env_keys[i]) : m.env_keys[i][c] # "="
                     /\ IF Masked(parse_env_var(pf.env[i]).key)
                        THEN /\ parse_env_var(m.env_vars[i]).key = parse_env_var(pf.env[i]).key
                             /\ parse_env_var(m.env_vars[i]).val = <<"*", "*", "*">>
                        ELSE m.env_vars[i] = pf.env[i]
               /\ \A j \in 1..Len(m.mask) :
                     \E i \in 1..Len(m.env_vars) : parse_env_var(m.env_vars[i]).key = m.mask[j]

\* run --mask k -- <command>, without --env, has stored mask [k] and no
\* env_vars.
C20_Witness ==
    /\ pf.fn = "done"
    /\ pf.env = <<>>
    /\ Unwrap(pf.meta) = [env_keys |-> <<>>, env_vars |-> <<>>, mask |-> << <<"k">> >>]

\* C21: whatever the log file holds, and whatever tail_lines and
\* max_bytes, the tail command and run's snapshot report
\* included_bytes <= observed_bytes, included_bytes being the UTF-8
\* length of the returned tail and observed_bytes the size of the file.
C21_IncludedLeObserved ==
    pf.fn \in {"tail", "snapshot"}
        => /\ Unwrap(pf.cmd).included_bytes = str_len(Unwrap(pf.cmd).tail)
           /\ Unwrap(pf.cmd).observed_bytes = metadata_len(pf.file)
           /\ Unwrap(pf.cmd).included_bytes <= Unwrap(pf.cmd).observed_bytes

\* tail of a stdout.log that holds the one byte 0xFF: the tail is U+FFFD,
\* three bytes long, and the file is one byte long.
C21_Witness ==
    /\ pf.fn = "tail"
    /\ pf.file = Some(<<255>>)
    /\ Unwrap(pf.cmd).tail = <<REPLACEMENT_CHARACTER>>
    /\ Unwrap(pf.cmd).included_bytes = 3
    /\ Unwrap(pf.cmd).observed_bytes = 1

\* C22: the tail engine keeps the last max_bytes bytes of the file and,
\* when tail_lines = n > 0, the last n lines of their decoded text, so
\* that the result has at most n lines; truncated tells whether the file
\* is longer than max_bytes or (n > 0) a line was dropped; with
\* tail_lines = 0 the whole decoded text is returned; an absent file gives
\* the empty tail, truncated = false and both byte counts 0.
C22_TailEngine ==
    pf.fn \in {"tail", "snapshot"}
        => LET r == Unwrap(pf.cmd)
               n == pf.tail_lines
               CountLines(s) ==
                   Cardinality({i \in 1..Len(s) : s[i] = 10})
                       + (IF s # <<>> /\ s[Len(s)] # 10 THEN 1 ELSE 0)
           IN  IF pf.file = None
               THEN r = [tail |-> <<>>, truncated |-> FALSE,
                         observed_bytes |-> 0, included_bytes |-> 0]
               ELSE LET data == Unwrap(pf.file)
                        byte_truncated == Len(data) > pf.max_bytes
                        kept == IF byte_truncated
                                THEN SubSeq(data, Len(data) - pf.max_bytes + 1, Len(data))
                                ELSE data
                        text == from_utf8_lossy(kept)
                        ls == lines(text)
                        line_truncated == CountLines(text) > n
                    IN  /\ Len(kept) = Min(Len(data), pf.max_bytes)
                        /\ Len(ls) = CountLines(text)
                        /\ IF n = 0
                           THEN /\ r.tail = text
                                /\ r.truncated = byte_truncated
                           ELSE /\ r.tail = join(SubSeq(ls, Max(Len(ls) - n, 0) + 1, Len(ls)))
                                /\ CountLines(r.tail) <= n
                                /\ r.truncated = (byte_truncated \/ line_truncated)

\* tail --tail-lines 1 --max-bytes 4 of the file "a\na": the tail is "a",
\* truncated by lines and not by bytes.
C22_Witness ==
    /\ pf.fn = "tail"
    /\ pf.file = Some(<<97, 10, 97>>)
    /\ pf.tail_lines = 1
    /\ pf.max_bytes = 4
    /\ Unwrap(pf.cmd).tail = <<97>>
    /\ Unwrap(pf.cmd).truncated

\* The jobs of the root that pass the filters of o: directories with a
\* parsable meta.json, the cwd asked for (any under --all) and the state
\* asked for (any without --state).
ListPassing(root, o) ==
    LET filter == cwd_filter(o)
    IN  {JobSummary(Unwrap(e.meta), e.st) :
            e \in {x \in {Unwrap(root)[i] : i \in 1..Len(Unwrap(root))} :
                      /\ x.kind = "dir"
                      /\ x.meta # None
                      /\ filter # None => Unwrap(x.meta).cwd = filter
                      /\ o.state # None =>
                            (IF x.st = None THEN "unknown" ELSE Unwrap(x.st)) = Unwrap(o.state)}}

\* C23: list returns the jobs that pass the filters ordered by started_at
\* descending, ties broken by job_id descending: all of them and
\* truncated = false when limit = 0, the first min(L, count) of that order
\* when limit = L > 0, with truncated iff count > L.
C23_ListOrderLimit ==
    (pf.fn \in {"listed", "done"} /\ pf.root # None)
        => LET out == Unwrap(pf.out)
               P == ListPassing(pf.root, pf.o)
               Before(a, b) == \/ a.started_at > b.started_at
                               \/ a.started_at = b.started_at /\ a.job_id > b.job_id
               Rank(a) == Cardinality({b \in P : Before(b, a)}) + 1
               L == pf.o.limit
           IN  /\ Len(out.jobs) = IF L = 0 THEN Cardinality(P) ELSE Min(L, Cardinality(P))
               /\ \A i \in 1..Len(out.jobs) : out.jobs[i] \in P /\ Rank(out.jobs[i]) = i
               /\ out.truncated = (L > 0 /\ Cardinality(P) > L)

\* list --all --limit 1 on a root where read_dir yields job 1 (created at
\* 1) before job 2 (created at 2): job 2 is returned, truncated is true.
C23_Witness ==
    /\ pf.fn = "listed"
    /\ pf.root # None
    /\ pf.o.all
    /\ pf.o.limit = 1
    /\ Len(Unwrap(pf.root)) = 2
    /\ Unwrap(pf.root)[1].name = 1
    /\ Unwrap(pf.root)[1].meta # None
    /\ Unwrap(pf.root)[2].meta # None
    /\ Unwrap(Unwrap(pf.root)[1].meta).created_at = 1
    /\ Unwrap(Unwrap(pf.root)[2].meta).created_at = 2
    /\ Len(Unwrap(pf.out).jobs) = 1
    /\ Unwrap(pf.out).jobs[1].job_id = 2
    /\ Unwrap(pf.out).truncated

\* C24: without a limit, the jobs list --cwd P (or list run from P)
\* returns are exactly those whose meta.json cwd is the resolved P, all of
\* them are returned by list --all with the same --state, and a job with
\* no recorded cwd is returned only under --all.
C24_AllIsSuperset ==
    (pf.fn = "done" /\ pf.root # None /\ pf.o.limit = 0 /\ ~pf.o.all)
        => LET out == Unwrap(pf.out)
               all == Unwrap(pf.all)
               P == IF pf.o.cwd = None THEN pf.o.current_dir ELSE Unwrap(pf.o.cwd)
               Returned(r) == {r.jobs[i] : i \in 1..Len(r.jobs)}
               Recorded == {Unwrap(Unwrap(pf.root)[i].meta) :
                               i \in {k \in 1..Len(Unwrap(pf.root)) :
                                         /\ Unwrap(pf.root)[k].kind = "dir"
                                         /\ Unwrap(pf.root)[k].meta # None}}
               CwdOf(id) == (CHOOSE m \in Recorded : m.id = id).cwd
           IN  /\ Returned(out) \subseteq Returned(all)
               /\ \A j \in Returned(all) :
                     j \in Returned(out) <=> CwdOf(j.job_id) = Some(canonicalize(P))
               /\ \A j \in Returned(out) : CwdOf(j.job_id) # None

\* list --cwd /l, /l a link to /a, on a root with a job of /a and a job
\* with no cwd: the first is returned, list --all returns both.
C24_Witness ==
    /\ pf.fn = "done"
    /\ pf.root # None
    /\ pf.o.limit = 0
    /\ pf.o.cwd = Some(Link)
    /\ pf.o.state = None
    /\ Len(Unwrap(pf.root)) = 2
    /\ Unwrap(pf.root)[1].meta # None
    /\ Unwrap(pf.root)[2].meta # None
    /\ Unwrap(Unwrap(pf.root)[1].meta).cwd = Some(DirA)
    /\ Unwrap(Unwrap(pf.root)[2].meta).cwd = None
    /\ Len(Unwrap(pf.out).jobs) = 1
    /\ Unwrap(pf.out).jobs[1].job_id = Unwrap(pf.root)[1].name
    /\ Len(Unwrap(pf.all).jobs) = 2

\* C25: a subdirectory of root without a readable, parsable meta.json is
\* never returned and adds one to skipped, as does an entry read_dir fails
\* on; files and jobs the filters remove add nothing; without a limit, a
\* job with meta.json and no readable state.json that passes the cwd
\* filter is returned with state "unknown", under --state unknown too.
C25_ListSkipped ==
    (pf.fn \in {"listed", "done"} /\ pf.root # None)
        => LET out == Unwrap(pf.out)
               root == Unwrap(pf.root)
               filter == cwd_filter(pf.o)
               NoMeta == {i \in 1..Len(root) : root[i].kind = "dir" /\ root[i].meta = None}
               Failed == {i \in 1..Len(root) : root[i].kind = "error"}
               NoState == {i \in 1..Len(root) :
                              /\ root[i].kind = "dir"
                              /\ root[i].meta # None
                              /\ root[i].st = None
                              /\ filter # None => Unwrap(root[i].meta).cwd = filter}
           IN  /\ out.skipped = Cardinality(NoMeta) + Cardinality(Failed)
               /\ \A i \in NoMeta \cup Failed :
                     \A k \in 1..Len(out.jobs) : out.jobs[k].job_id # root[i].name
               /\ pf.o.limit = 0 =>
                     \A i \in NoState :
                        \E k \in 1..Len(out.jobs) :
                           /\ out.jobs[k].job_id = root[i].name
                           /\ out.jobs[k].state = "unknown"

\* list --cwd /a --state unknown on a root with a directory without
\* meta.json and a job of /a without state.json: skipped is 1 and the
\* job is returned with state "unknown".
C25_Witness ==
    /\ pf.fn = "listed"
    /\ pf.root # None
    /\ pf.o.cwd = Some(DirA)
    /\ pf.o.state = Some("unknown")
    /\ pf.o.limit = 0
    /\ Len(Unwrap(pf.root)) = 2
    /\ Unwrap(pf.root)[1].kind = "dir"
    /\ Unwrap(pf.root)[1].meta = None
    /\ Unwrap(pf.root)[2].meta # None
    /\ Unwrap(Unwrap(pf.root)[2].meta).cwd = Some(DirA)
    /\ Unwrap(pf.root)[2].st = None
    /\ Unwrap(pf.out).skipped = 1
    /\ Len(Unwrap(pf.out).jobs) = 1
    /\ Unwrap(pf.out).jobs[1].state = "unknown"

\* C26: over the job's lifetime the updated_at of the successive documents
\* in state.json never decreases: a document that replaces another is not
\* older, and neither is the one the watcher is writing when it truncates
\* the file.
C26_UpdatedAtMonotonic ==
    [][/\ (ReadOk /\ IsSome(state'.doc))
             => Unwrap(state'.doc).updated_at >= Unwrap(state.doc).updated_at
       /\ (ReadOk /\ wt.pc = "prog_trunc" /\ state' = Truncated)
             => Unwrap(wt.st).updated_at >= Unwrap(state.doc).updated_at]_vars

\* C27: a kill that read status running and a pid has written status
\* killed to state.json by the time it returns, whether the signal was
\* delivered, the process was gone (ESRCH), or the signal call failed for
\* another reason.
C27_KillWritesBeforeReturn ==
    (kl.pc = "exit" /\ IsSome(kl.pid)) => kl.wrote

\* A kill that read running and the child's pid returns the error of
\* send_signal, having written nothing: state.json still says running.
C27_Witness ==
    /\ kl.pc = "exit"
    /\ kl.pid = Some(ChildPid)
    /\ ~kl.signalled /\ ~kl.wrote
    /\ kl.code = Some(1)
    /\ kl.out = Some(ErrorResponse("internal_error"))
    /\ StatusNow = "running"

\* C28: the child sees, for every name, the value of its latest
\* definition in the order inherited environment (none under
\* --no-inherit-env), env files as given (lines KEY=VALUE; blank lines
\* and comments ignored), --env entries: an --env entry wins over the env
\* files and the inherited environment, a later env file over an earlier.
C28_ChildEnvOrder ==
    pf.fn = "done"
        => LET env == Unwrap(pf.env)
               Defines(line, K) ==
                   /\ trim(line) # <<>>
                   /\ trim(line)[1] # "#"
                   /\ parse_env_var(trim(line)).key = K
               Explicit(K) == {i \in 1..Len(pf.env_vars) : parse_env_var(pf.env_vars[i]).key = K}
               InFile(K) == {fl \in (1..Len(pf.env_files)) \X (1..MaxFileLines + 1) :
                                /\ fl[2] <= Len(pf.env_files[fl[1]])
                                /\ Defines(pf.env_files[fl[1]][fl[2]], K)}
               Last(S) == CHOOSE i \in S : \A j \in S : j <= i
               LastIn(S) == CHOOSE fl \in S :
                               \A o \in S : o[1] < fl[1] \/ (o[1] = fl[1] /\ o[2] <= fl[2])
               Keys == {<<"k">>, <<"j">>, <<"h">>}
           IN  /\ DOMAIN env \subseteq Keys
               /\ \A K \in Keys :
                     IF Explicit(K) # {}
                     THEN K \in DOMAIN env
                          /\ env[K] = parse_env_var(pf.env_vars[Last(Explicit(K))]).val
                     ELSE IF InFile(K) # {}
                     THEN K \in DOMAIN env
                          /\ env[K] = parse_env_var(trim(
                                 pf.env_files[LastIn(InFile(K))[1]][LastIn(InFile(K))[2]])).val
                     ELSE IF pf.inherit_env /\ K \in DOMAIN Inherited
                     THEN K \in DOMAIN env /\ env[K] = Inherited[K]
                     ELSE K \notin DOMAIN env

\* --env-file with k=f, --env-file with k=g, --env k=e, the supervisor's
\* environment holding k=i and h=i: the child sees k=e and h=i.
C28_Witness ==
    /\ pf.fn = "done"
    /\ pf.inherit_env
    /\ pf.env_files = << << <<"k", "=", "f">> >>, << <<" ", "k", "=", "g", " ">> >> >>
    /\ pf.env_vars = << <<"k", "=", "e">> >>
    /\ Unwrap(pf.env)[<<"k">>] = <<"e">>
    /\ Unwrap(pf.env)[<<"h">>] = <<"i">>

\* C29: every document stored in state.json has the three result keys;
\* when its status is running, exit_code, signal, duration_ms and
\* finished_at are null; when its status is terminal, finished_at is set:
\* the write that makes the status terminal is the one that sets them.
C29_ResultFields ==
    ReadOk
        => LET d == Unwrap(state.doc)
           IN  /\ {"exit_code", "signal", "duration_ms"} \subseteq DOMAIN d
               /\ d.status = "running"
                     => /\ d.exit_code = None
                        /\ d.signal = None
                        /\ d.duration_ms = None
                        /\ d.finished_at = None
               /\ d.status \in Terminal => d.finished_at # None

\* The supervisor has written exited with the exit code, the duration and
\* finished_at over the running document of its handshake.
C29_Witness ==
    /\ sv.pc = "done"
    /\ StatusNow = "exited"
    /\ Unwrap(state.doc).exit_code = sv.exit
    /\ IsSome(sv.exit)
    /\ IsSome(Unwrap(state.doc).duration_ms)
    /\ IsSome(Unwrap(state.doc).finished_at)

\* C30: once state.json holds the child's pid (the supervisor's handshake
\* write), every later document in it holds the child's pid: the
\* front-end's initial write, with the supervisor's pid, never follows a
\* write of the supervisor.
C30_PidAfterHandshake ==
    [][(ReadOk /\ Unwrap(state.doc).pid = Some(ChildPid) /\ IsSome(state'.doc))
          => Unwrap(state'.doc).pid = Some(ChildPid)]_vars

\* run has returned and the supervisor, past its handshake write, waits
\* for the child, while state.json says running with the supervisor's pid.
C30_Witness ==
    /\ fe.pc = "done"
    /\ sv.pc = "wait"
    /\ StatusNow = "running"
    /\ Unwrap(state.doc).pid = Some(SupPid)

\* C31: the watcher's progress refresh replaces state.json atomically: at
\* every moment state.json, once it exists, holds a complete document, the
\* previous one or the refreshed one, and never an empty or partial one.
C31_RefreshAtomic ==
    state.present => ReadOk

\* status read state.json between the truncation and the write of the
\* watcher's std::fs::write and ended with an internal error.
C31_Witness ==
    /\ wt.pc = "prog_write"
    /\ state = Truncated
    /\ cl.cmd = "status"
    /\ cl.err = Some("io")

\* C32: the document a progress refresh writes equals, in every field but
\* updated_at, the content state.json has when the watcher writes, also
\* when kill or the front-end's initial write replaced state.json after
\* the watcher read it: no refresh turns killed back into running.
C32_RefreshOnlyUpdatedAt ==
    [][(wt.pc = "prog_trunc" /\ wt'.pc = "prog_write" /\ ReadOk)
          => [Unwrap(wt.st) EXCEPT !.updated_at = 0]
                = [Unwrap(state.doc) EXCEPT !.updated_at = 0]]_vars

\* kill has written killed and returned, and the watcher has written the
\* running document it had read before over it.
C32_Witness ==
    /\ kl.pc = "exit" /\ kl.wrote
    /\ wt.pc = "poll"
    /\ StatusNow = "running"
    /\ sv.pc = "wait"

\* C33: only the job's supervisor process, its main thread or its
\* watcher, changes state.json; the run front-end and kill never do.
C33_OnlySupervisorWrites ==
    [][state' # state => (fe' = fe /\ kl' = kl)]_vars

\* kill has replaced the supervisor's running document by killed.
C33_Witness ==
    /\ kl.pc = "print" /\ kl.wrote
    /\ StatusNow = "killed"
    /\ Unwrap(state.doc).pid = Some(ChildPid)
    /\ sv.pc = "wait"


\* C34: meta.json is written before the supervisor is spawned and before
\* state.json first exists: whenever the supervisor has been started, and
\* whenever state.json exists, meta.json is there, so the supervisor's
\* read_meta never comes before run's write.
C34_MetaFirst ==
    (sv.pc # "idle" \/ state.present) => "meta.json" \in files

\* The supervisor has been spawned and is about to read meta.json while
\* run has not yet written the initial state.json.
C34_Witness ==
    /\ sv.pc = "open"
    /\ fe.pc = "init"
    /\ ~state.present
    /\ "meta.json" \in files


----------------------------------------------------------------------------
\* stream_to_logs byte by byte: the command writes to its two pipes, each
\* tee worker copies its pipe to the stream's log and emits the lines to
\* full.log under the shared lock.  tee[t] is the worker's position; pf
\* holds the pipes, the logs and the workers' buffers.

\* The bytes the command writes: LF, 'a', and a byte that is not UTF-8.
StreamBytes == {10, 97, 255}

\* The most bytes the command writes to one stream.
MaxStream == 2

\* let mut buf = [0u8; 8192]
BufLen == 8192

\* The label supervise passes to the worker of a stream.
label(t) == IF t = "STDOUT" THEN "STDOUT" ELSE "STDERR"

\* The pieces of format_args!("{ts} [{label}] {line}\n"); write_fmt hands
\* them to the file one write_all at a time.
PieceCount == 6

piece(t, k) ==
    [by |-> t, k |-> k,
     text |-> CASE k = 1 -> <<now>>
                [] k = 2 -> " ["
                [] k = 3 -> label(t)
                [] k = 4 -> "] "
                [] k = 5 -> from_utf8_lossy(pf.line_buf[t])
                [] OTHER -> "\n"]

TeeWork ==
    [written |-> [t \in Streams |-> <<>>],
     pipe |-> [t \in Streams |-> <<>>],
     log |-> [t \in Streams |-> <<>>],
     chunk |-> [t \in Streams |-> <<>>],
     line_buf |-> [t \in Streams |-> <<>>],
     eof |-> [t \in Streams |-> FALSE],
     pieces |-> [t \in Streams |-> 0],
     holder |-> None,
     full |-> <<>>]

\* The command writes one byte to its stdout or stderr.
ChildWrite(t, b) ==
    /\ child.st = "running"
    /\ Len(pf.written[t]) < MaxStream
    /\ pf' = [pf EXCEPT !.written[t] = Append(@, b), !.pipe[t] = Append(@, b)]
    /\ UNCHANGED <<opts, files, state, fe, sv, wt, tee, child, kl, now, io, cl, logs>>

\* Variant: only whole lines reach the stream's log.
StreamReadLines(t) ==
    /\ tee[t] = "read"
    /\ pf.pipe[t] # <<>>
    /\ \E n \in 1..Min(Len(pf.pipe[t]), BufLen) :
         LET got == SubSeq(pf.pipe[t], 1, n)
             nl == find_lf(got)
         IN  pf' = [pf EXCEPT !.pipe[t] = SubSeq(@, n + 1, Len(@)),
                              !.chunk[t] = got,
                              !.log[t] = IF nl = 0 THEN @ ELSE @ \o got]
    /\ tee' = [tee EXCEPT ![t] = "scan"]
    /\ UNCHANGED <<opts, files, state, fe, sv, wt, child, kl, now, io, cl, logs>>

\* stream.read(&mut buf) returns Ok(n), n > 0: some or all of the bytes
\* in the pipe; log_file.write_all(chunk).
StreamRead(t) ==
    /\ tee[t] = "read"
    /\ pf.pipe[t] # <<>>
    /\ \E n \in 1..Min(Len(pf.pipe[t]), BufLen) :
         pf' = [pf EXCEPT !.pipe[t] = SubSeq(@, n + 1, Len(@)),
                          !.chunk[t] = SubSeq(pf.pipe[t], 1, n),
                          !.log[t] = @ \o SubSeq(pf.pipe[t], 1, n)]
    /\ tee' = [tee EXCEPT ![t] = "scan"]
    /\ UNCHANGED <<opts, files, state, fe, sv, wt, child, kl, now, io, cl, logs>>

\* for &b in chunk: the bytes up to the next LF go to line_buf; at the LF
\* the line is emitted, at the end of the chunk the next read follows.
StreamScan(t) ==
    /\ tee[t] = "scan"
    /\ LET nl == find_lf(pf.chunk[t])
       IN  IF nl = 0
           THEN /\ pf' = [pf EXCEPT !.line_buf[t] = @ \o pf.chunk[t],
                                    !.chunk[t] = <<>>]
                /\ tee' = [tee EXCEPT ![t] = "read"]
           ELSE /\ pf' = [pf EXCEPT !.line_buf[t] = @ \o SubSeq(pf.chunk[t], 1, nl - 1),
                                    !.chunk[t] = SubSeq(@, nl + 1, Len(@))]
                /\ tee' = [tee EXCEPT ![t] = "lock"]
    /\ UNCHANGED <<opts, files, state, fe, sv, wt, child, kl, now, io, cl, logs>>

\* stream.read returns Ok(0): the command has ended and the pipe is
\* empty.  A line without its LF is still to be emitted.
StreamEof(t) ==
    /\ tee[t] = "read"
    /\ pf.pipe[t] = <<>>
    /\ child.st \in {"zombie", "reaped"}
    /\ pf' = [pf EXCEPT !.eof[t] = TRUE]
    /\ tee' = [tee EXCEPT ![t] = IF pf.line_buf[t] # <<>> THEN "lock" ELSE "done"]
    /\ UNCHANGED <<opts, files, state, fe, sv, wt, child, kl, now, io, cl, logs>>

\* Variant: the worker writes to full.log without the lock.
StreamLockFree(t) ==
    /\ tee[t] = "lock"
    /\ pf' = [pf EXCEPT !.holder = Some(t), !.pieces[t] = 0]
    /\ tee' = [tee EXCEPT ![t] = "emit"]
    /\ UNCHANGED <<opts, files, state, fe, sv, wt, child, kl, now, io, cl, logs>>

\* full_log.lock() returns once the other worker does not hold the lock.
StreamLock(t) ==
    /\ tee[t] = "lock"
    /\ pf.holder = None
    /\ pf' = [pf EXCEPT !.holder = Some(t), !.pieces[t] = 0]
    /\ tee' = [tee EXCEPT ![t] = "emit"]
    /\ UNCHANGED <<opts, files, state, fe, sv, wt, child, kl, now, io, cl, logs>>

\* writeln!(fl, "{ts} [{label}] {line}"): the next piece is written.
\* After the last the guard is dropped, line_buf is cleared, and the
\* worker goes on with the chunk or, after EOF, returns.
StreamEmit(t) ==
    /\ tee[t] = "emit"
    /\ LET k == pf.pieces[t] + 1
       IN  IF k < PieceCount
           THEN /\ pf' = [pf EXCEPT !.full = Append(@, piece(t, k)),
                                    !.pieces[t] = k]
                /\ tee' = tee
           ELSE /\ pf' = [pf EXCEPT !.full = Append(@, piece(t, k)),
                                    !.pieces[t] = 0,
                                    !.holder = None,
                                    !.line_buf[t] = <<>>]
                /\ tee' = [tee EXCEPT ![t] = IF pf.eof[t] THEN "done" ELSE "scan"]
    /\ UNCHANGED <<opts, files, state, fe, sv, wt, child, kl, now, io, cl, logs>>

StreamToLogs ==
    \E t \in Streams :
        StreamRead(t) \/ StreamScan(t) \/ StreamEof(t) \/ StreamLock(t) \/ StreamEmit(t)

\* The tee specification: the two workers of a running job on unix, from
\* the moment supervise has spawned them and run has returned; the command
\* writes up to MaxStream bytes to each stream and ends when it pleases.
TeeInit ==
    /\ opts = [timeout_ms |-> 0, kill_after_ms |-> 0, progress_every_ms |-> 0,
               windows |-> FALSE]
    /\ files = {".", "meta.json"} \cup LogFiles
    /\ state = Whole(JobState("running", None, None, None, Some(ChildPid), None, 0, None))
    /\ fe = [FeInit EXCEPT !.pc = "done", !.out = Some(RunResponse)]
    /\ sv = [SvInit EXCEPT !.pc = "wait"]
    /\ wt = WtInit
    /\ tee = [t \in Streams |-> "read"]
    /\ child = [ChildInit EXCEPT !.st = "running"]
    /\ kl = KlIdle
    /\ now = 0
    /\ io = IoInit
    /\ cl = NoClient
    /\ pf = TeeWork
    /\ logs = 0

TeeNext ==
    \/ Child
    \/ \E t \in Streams, b \in StreamBytes : ChildWrite(t, b)
    \/ StreamToLogs

SpecTee == TeeInit /\ [][TeeNext]_vars

\* The join specification: run --progress-every 100 -- <command> on unix
\* from the start, the command writing up to MaxStream bytes 'a' to each
\* stream, the workers and the watcher running beside the supervisor's
\* main thread.
JoinInit ==
    /\ opts = [timeout_ms |-> 0, kill_after_ms |-> 0, progress_every_ms |-> 100,
               windows |-> FALSE]
    /\ files = {}
    /\ state = Absent
    /\ fe = FeInit
    /\ sv = SvInit
    /\ wt = WtInit
    /\ tee = [t \in Streams |-> "none"]
    /\ child = ChildInit
    /\ kl = KlIdle
    /\ now = 0
    /\ io = IoInit
    /\ cl = NoClient
    /\ pf = TeeWork
    /\ logs = 0

JoinNext ==
    \/ FrontEndUnix \/ SupervisorUnix \/ Progress \/ Child
    \/ \E t \in Streams : ChildWrite(t, 97)
    \/ StreamToLogs

SpecJoin == JoinInit /\ [][JoinNext]_vars

RecordAt(i) == SubSeq(pf.full, i, i + PieceCount - 1)

\* s cut at every LF: the segments before each LF, and the bytes after
\* the last LF when there are any.
RECURSIVE split_lf(_)
split_lf(s) ==
    IF s = <<>> THEN <<>>
    ELSE LET nl == find_lf(s)
         IN  IF nl = 0 THEN <<s>>
             ELSE <<SubSeq(s, 1, nl - 1)>> \o split_lf(SubSeq(s, nl + 1, Len(s)))

\* C36: the two tee workers never write to full.log at the same time:
\* the pieces of one record follow each other in full.log with no piece of
\* the other worker between them, and each record carries the tag of the
\* stream whose line it holds.
C36_FullLogRecords ==
    /\ ~(tee["STDOUT"] = "emit" /\ tee["STDERR"] = "emit")
    /\ \A i \in 1..Len(pf.full) :
          \/ pf.full[i].k = 1
          \/ /\ i > 1
             /\ pf.full[i - 1].by = pf.full[i].by
             /\ pf.full[i - 1].k = pf.full[i].k - 1
    /\ \A i \in 1..Len(pf.full) :
          pf.full[i].k = 5 =>
              \E t \in Streams :
                  /\ pf.full[i - 2].text = label(t)
                  /\ \E j \in 1..Len(split_lf(pf.written[t])) :
                        pf.full[i].text = from_utf8_lossy(split_lf(pf.written[t])[j])

\* The worker of stdout waits for the lock while the worker of stderr is
\* in the middle of its record, after a whole record of stdout.
C36_Witness ==
    /\ tee["STDOUT"] = "lock"
    /\ tee["STDERR"] = "emit"
    /\ pf.pieces["STDERR"] = 3
    /\ Len(pf.full) = PieceCount + 3
    /\ pf.full[1].by = "STDOUT"

\* The lines of the records of stream t in full.log, in file order.
IsLineOf(t, p) == p.k = 5 /\ p.by = t
RecordLines(t) ==
    LET ps == SelectSeq(pf.full, LAMBDA p : IsLineOf(t, p))
    IN  [i \in 1..Len(ps) |-> ps[i].text]

\* What the log of stream t holds is what was read from its pipe so far.
LogIsRead(t) == pf.written[t] = pf.log[t] \o pf.pipe[t]

C38_AssignFailureSurfaces ==
    [][(/\ opts.windows
        /\ sv.pc = "exit_err" /\ child.cause = "assign_failed"
        /\ fe.pc = "handshake")
          => fe'.pc # "print"]_vars

\* run has printed its success response for a job whose supervisor wrote
\* failed before run wrote the initial state over it.
C38_Witness ==
    /\ opts.windows
    /\ sv.pc = "exit_err" /\ child.cause = "assign_failed"
    /\ fe.out = Some(RunResponse)
    /\ StatusNow = "running"
    /\ Unwrap(state.doc).pid = Some(SupPid)


\* C39: after run has returned, the pid kill sends its signal to is the
\* child's and never the supervisor's, so that no job recorded as killed
\* has its child running without a supervisor.
C39_KillSignalsChild ==
    /\ (kl.pc = "signal" /\ fe.pc = "done") => kl.pid = Some(ChildPid)
    /\ (fe.pc = "done" /\ StatusNow = "killed" /\ child.st = "running")
          => SvRunning

\* run returned, kill read the supervisor's pid before the handshake write
\* and ended the supervisor: state.json says killed, the child runs on.
C39_Witness ==
    /\ fe.pc = "done"
    /\ kl.pc = "exit" /\ kl.signalled /\ kl.pid = Some(SupPid)
    /\ sv.pc = "killed"
    /\ child.st = "running"
    /\ StatusNow = "killed"


\* C40: the watcher sends a signal to the child's pid only while the
\* child has not been reaped: neither its terminate nor its hard-kill,
\* the one after the kill_after sleep included, is sent once the
\* supervisor's wait has returned.
C40_NoSignalAfterReap ==
    [][((wt'.term_sent /\ ~wt.term_sent) \/ (wt'.kill_sent /\ ~wt.kill_sent))
          => child.st # "reaped"]_vars

\* The kill_after sleep is over and the watcher is at its hard-kill, while
\* the child, dead from the watcher's terminate, has been reaped by the
\* supervisor's wait.
C40_Witness ==
    /\ wt.pc = "kill" /\ KillAfterOver /\ wt.term_sent
    /\ opts.kill_after_ms > 0
    /\ child.st = "reaped" /\ child.cause = "watcher"
    /\ sv.pc = "join"

====
